---- MODULE Spec2Model ----
(***************************************************************************)
(* StormWater-AI: the analyzer (model call, fallback, reply parser), the   *)
(* Python runner (temp files, subprocess, timeout, cleanup) and the plugin *)
(* manager (registration, selection, dispatch).                            *)
(*                                                                         *)
(* The specifications share the variables; each moves only its own part:   *)
(*   SpecAnalyzer  AIAnalyzer.analyzeDocument / generateDocument           *)
(*   SpecRunner    PythonInterpreter.executeStormwaterAnalysis, one        *)
(*                 invocation under every fault                            *)
(*   SpecOverlap   PythonInterpreter, overlapping invocations              *)
(*   SpecPlugins   PluginManager                                           *)
(*   SpecStorage   IStorage under the upload and delete routes             *)
(*   SpecParser    parseAnalysisResponse over replies with long sections   *)
(*   SpecContext   the document parts of the prompts: buildReferenceContext,*)
(*                 generateComprehensiveReport, /api/search/claude4        *)
(*   SpecSearch    POST /api/search/claude4 with claude4Cache              *)
(*   SpecRegistry  PluginRegistry: initializeAllPlugins, shutdownAllPlugins*)
(***************************************************************************)
EXTENDS Integers, Sequences, FiniteSets, TLC

VARIABLES
    \* ---- AIAnalyzer ----
    hasApiKey,      \* this.hasApiKey, fixed by the constructor
    aPc,            \* position of the one request in flight
    aReq,           \* the request: operation, document, query / prompt
    apiCalls,       \* anthropic.messages.create calls made for this request
    aReply,         \* the text handed to parseAnalysisResponse, or NoText
    aFailed,        \* how storage or the model call failed, or "no"
    aReturn,        \* what the caller got: [kind, value]
    \* ---- PythonInterpreter, one entry per invocation ----
    fs,             \* the temp directory: path -> content, or Absent
    rUsed,          \* session ids handed out so far
    rPc,            \* "idle", "awaiting" (executePythonScript), "returned"
    rSession,       \* sessionId of the invocation
    rProc,          \* the python3 child process
    rKill,          \* a kill signal has been sent and not yet delivered
    rTimer,         \* the 30 s setTimeout: "unset", "armed", "fired"
    rSettled,       \* how the promise of executePythonScript was resolved
    rResult,        \* what the caller got: [kind, success, error, summary]
    rAttempted,     \* paths cleanup was called on
    rLogged,        \* paths whose deletion failed and was logged
    rTouched,       \* paths the invocation or its process wrote, read or deleted
    \* ---- PluginManager ----
    plugins,        \* this.plugins: the ids, in the insertion order of the Map
    pActive,        \* plugin.isActive
    pRunning,       \* the plugin's isRunning
    pHealth,        \* status.health of a plugin that stores it
    pRequestCount,  \* requestCount of a plugin that derives its health from it
    pErrorCount,    \* errorCount of a plugin that derives its health from it
    pPhase,         \* the manager's call awaiting the plugin, or "none"
    pCall,          \* the one processRequest in flight
    \* ---- storage, the upload route's background analysis, the delete route ----
    sImpl,          \* the IStorage in use: "MemStorage" or "DatabaseStorage"
    sFk,            \* the foreign keys the database schema enforces
    sNextId,        \* the id the next document gets
    sDocuments,     \* ids of the stored documents
    sAnalyses,      \* per document id: stored analyses with that documentId
    sRecs,          \* per document id: stored recommendations with that sourceDocumentId
    bgPc,           \* per document: position of its background analysis
    bgLeft,         \* per document: citations of the recommendations yet to store
    delPc,          \* per document: position of DELETE /api/documents/:id
    sStored,        \* the recommendations ever stored: sourceDocumentId, citation
    \* ---- the reply parser on its own ----
    xText,          \* analysisText
    xDoc,           \* document
    xResult,        \* what the caller got: [kind, value]
    \* ---- the prompt assemblers on their own ----
    cLibrary,       \* the documents handed to the assembler, in their order
    cPrompts,       \* the document parts of the prompts assembled so far
    \* ---- POST /api/search/claude4 ----
    qNow,           \* Date.now(), in minutes
    qCache,         \* claude4Cache: cache key -> [result, timestamp], or NotCached
    qPc,            \* position of the one request in flight
    qReq,           \* its body: query, mode, includeContext
    qReceived,      \* Date.now() when its cache lookup was made
    qFound,         \* localResults.documents.length > 0
    qLog,           \* the requests answered so far, in their order
    \* ---- PluginRegistry over the pluginManager ----
    gInitialized,   \* this.isInitialized
    gPlugins,       \* pluginManager.plugins: the instances, in the order of the Map
    gRunning,       \* the instances whose isRunning is true
    gCalls,         \* per call of initializeAllPlugins: its position
    gShutdown,      \* the call of shutdownAllPlugins: its position
    gCount,         \* per plugin id: times constructed, initialized, registered
    \* ---- a request dispatched to a plugin ----
    dPlugin,        \* the plugin findBestPlugin returned
    dRequest,       \* the request: its type and its data.type
    dOutcome,       \* what plugin.process did with request.data
    \* ---- POST /api/documents/upload and DELETE /api/documents/:id ----
    uLibrary,       \* ids of the documents in the permanent library
    uNextId,        \* the id createDocument gives next
    uDisk,          \* whether the uploaded file is at req.file.path
    uPc,            \* position of the one request in flight
    uReq,           \* the request: route, Authorization token, body or :id
    uResponse       \* the last response sent

aVars == <<hasApiKey, aPc, aReq, apiCalls, aReply, aFailed, aReturn>>

rVars == <<fs, rUsed, rPc, rSession, rProc, rKill, rTimer, rSettled, rResult,
           rAttempted, rLogged, rTouched>>

pVars == <<plugins, pActive, pRunning, pHealth, pRequestCount, pErrorCount,
           pPhase, pCall>>

sVars == <<sImpl, sFk, sNextId, sDocuments, sAnalyses, sRecs, bgPc, bgLeft,
           delPc, sStored>>

xVars == <<xText, xDoc, xResult>>

cVars == <<cLibrary, cPrompts>>

qVars == <<qNow, qCache, qPc, qReq, qReceived, qFound, qLog>>

gVars == <<gInitialized, gPlugins, gRunning, gCalls, gShutdown, gCount>>

dVars == <<dPlugin, dRequest, dOutcome>>

uVars == <<uLibrary, uNextId, uDisk, uPc, uReq, uResponse>>

vars == <<aVars, rVars, pVars, sVars, xVars, cVars, qVars, gVars, dVars, uVars>>

\* what the actions of one part leave alone
restA == <<rVars, pVars, sVars, xVars, cVars, qVars, gVars, dVars, uVars>>
restR == <<aVars, pVars, sVars, xVars, cVars, qVars, gVars, dVars, uVars>>
restP == <<aVars, rVars, sVars, xVars, cVars, qVars, gVars, dVars, uVars>>
restS == <<aVars, rVars, pVars, xVars, cVars, qVars, gVars, dVars, uVars>>
restX == <<aVars, rVars, pVars, sVars, cVars, qVars, gVars, dVars, uVars>>
restC == <<aVars, rVars, pVars, sVars, xVars, qVars, gVars, dVars, uVars>>
restQ == <<aVars, rVars, pVars, sVars, xVars, cVars, gVars, dVars, uVars>>
restG == <<aVars, rVars, pVars, sVars, xVars, cVars, qVars, dVars, uVars>>
restD == <<aVars, rVars, pVars, sVars, xVars, cVars, qVars, gVars, uVars>>
restU == <<aVars, rVars, pVars, sVars, xVars, cVars, qVars, gVars, dVars>>

(***************************************************************************)
(* Bounds                                                                  *)
(***************************************************************************)
MaxLen == 4         \* longest model reply, in tokens
NumRuns == 2        \* overlapping invocations of the runner
MaxRequests == 1    \* requests counted by a plugin
NumDocs == 2        \* documents uploaded
MaxRecs == 2        \* recommendations stored for one analysis
MaxBullets == 6     \* bullet items of an INSIGHTS section
MaxLines == 11      \* lines of a RECOMMENDATIONS section
MaxLibrary == 3     \* documents handed to a prompt assembler
MaxPrompts == 2     \* prompts assembled from one library
MaxBody == 5        \* longest body of an INSIGHTS section, in tokens
MaxSearches == 3    \* search requests answered
MaxMinutes == 4     \* minutes the clock runs
MaxUploads == 2      \* documents the upload route adds to the library
NumInits == 2       \* overlapping calls of initializeAllPlugins

(***************************************************************************)
(* Texts.  A text is a sequence of tokens; a token stands for the          *)
(* characters written in it ("nl" is a newline, "sp" a blank, "w" a word   *)
(* of lower-case letters).  Tokens are chosen so that no label or marker   *)
(* arises from the concatenation of two of them.                           *)
(***************************************************************************)
Labels == {"ANALYSIS:", "INSIGHTS:", "RECOMMENDATIONS:"}
Markers == {"STORMWATER:", "QSD:", "SWPPP:", "EROSION:"}
Tokens == Labels \cup {"STORMWATER:", "nl", "sp", "w", "-"}

RECURSIVE SeqsUpTo(_, _)
SeqsUpTo(S, n) ==
    IF n = 0 THEN {<<>>}
    ELSE LET shorter == SeqsUpTo(S, n - 1)
         IN  shorter \cup {Append(s, x) : s \in {t \in shorter : Len(t) = n - 1}, x \in S}

Texts == SeqsUpTo(Tokens, MaxLen)

IsSpace(t) == t \in {"nl", "sp"}            \* \s
IsLetters(t) == t = "w"                      \* letters only
LowerCaseHeaders == {"note:", "Note:"}       \* not all letters upper-case
IsUpperCaseColon(t) == t \in Labels \cup Markers   \* upper-case letters, then a colon
\* letters, then a colon
IsLetterColon(t) == IsUpperCaseColon(t) \/ t \in LowerCaseHeaders
IsBullet(t) == t = "-"                       \* one of the bullet characters

\* String.prototype.trim
RECURSIVE TrimLeft(_)
TrimLeft(s) == IF s # <<>> /\ IsSpace(Head(s)) THEN TrimLeft(Tail(s)) ELSE s

RECURSIVE TrimRight(_)
TrimRight(s) ==
    IF s # <<>> /\ IsSpace(s[Len(s)]) THEN TrimRight(SubSeq(s, 1, Len(s) - 1)) ELSE s

Trim(s) == TrimRight(TrimLeft(s))

\* first position >= i of text that is not white space (Len+1 if none)
RECURSIVE SkipSpace(_, _)
SkipSpace(text, i) ==
    IF i <= Len(text) /\ IsSpace(text[i]) THEN SkipSpace(text, i + 1) ELSE i

(***************************************************************************)
(* extractSection: new RegExp(`${name}:\\s*([\\s\\S]*?)(?=\\n\\n[A-Z]+:|$)`,*)
(* 'i').  The i flag makes [A-Z] match letters of either case; without the *)
(* m flag $ is the end of the text.                                        *)
(***************************************************************************)
\* [A-Z]+: at position p: letters up to a colon
HeaderAt(text, p) ==
    \E j \in p..Len(text) :
        /\ \A k \in p..(j - 1) : IsLetters(text[k])
        /\ IsLetterColon(text[j])

\* the lookahead (?=\n\n[A-Z]+:|$) at position p
SectionEndsAt(text, p) ==
    \/ p = Len(text) + 1
    \/ /\ p + 1 <= Len(text)
       /\ text[p] = "nl"
       /\ text[p + 1] = "nl"
       /\ HeaderAt(text, p + 2)

Min(S) == CHOOSE x \in S : \A y \in S : x <= y

extractSection(text, sectionName) ==
    LET at == {i \in 1..Len(text) : text[i] = sectionName}
    IN  IF at = {} THEN <<>>
        ELSE LET start == SkipSpace(text, Min(at) + 1)
                 end == Min({p \in start..(Len(text) + 1) : SectionEndsAt(text, p)})
             IN  Trim(SubSeq(text, start, end - 1))

(***************************************************************************)
(* Documents and fixed texts                                               *)
(***************************************************************************)
Docs ==
    { [originalName |-> "plan.pdf", content |-> "plain"],
      [originalName |-> "site.png", content |-> "IMAGE_TOO_LARGE:"],
      [originalName |-> "site.jpg", content |-> "IMAGE_BASE64:"],
      [originalName |-> "scan.gif", content |-> "plain"] }

Queries == {"", "q"}            \* query?: absent or given
Prompts == {"p1", "p2"}

\* /\.(jpg|jpeg|png|gif|bmp|webp|heic|heif)$/i.test(document.originalName)
isImage(document) == document.originalName \in {"site.png", "site.jpg", "scan.gif"}

\* the branch of analyzeDocument / analyzeImageWithContext that issues the call
AnalyzeBranch(document) ==
    IF ~isImage(document) THEN "callWithContext"          \* analyzeDocumentWithContext
    ELSE IF document.content = "IMAGE_TOO_LARGE:" THEN "callLargeImage"
    ELSE IF document.content = "IMAGE_BASE64:" THEN "callImage"
    ELSE "callText"                                       \* analyzeTextDocument

AnalyzeCalls == {"callWithContext", "callLargeImage", "callImage", "callText"}

FallbackInsights2 ==
    << <<"Document successfully processed and indexed">>,
       <<"Content is available for search and reference">> >>

FallbackInsights3 ==
    Append(FallbackInsights2, <<"Manual review recommended for detailed insights">>)

ReviewRequired(document) ==
    [ title |-> <<"Document Review Required">>,
      content |-> <<"This document has been processed and is available for search.">>,
      category |-> "stormwater",
      subcategory |-> "",
      citation |-> <<document.originalName, "Full Document">> ]

(***************************************************************************)
(* extractInsights                                                         *)
(***************************************************************************)
\* String.prototype.split(/[-bullet*]\s*/): the pieces between the matches
RECURSIVE SplitBullets(_, _, _)
SplitBullets(s, i, cur) ==
    IF i > Len(s) THEN <<cur>>
    ELSE IF IsBullet(s[i]) THEN <<cur>> \o SplitBullets(s, SkipSpace(s, i + 1), <<>>)
    ELSE SplitBullets(s, i + 1, Append(cur, s[i]))

\* Array.prototype.filter(line => line.trim()).map(line => line.trim())
RECURSIVE TrimmedNonEmpty(_)
TrimmedNonEmpty(pieces) ==
    IF pieces = <<>> THEN <<>>
    ELSE IF Trim(Head(pieces)) = <<>> THEN TrimmedNonEmpty(Tail(pieces))
    ELSE <<Trim(Head(pieces))>> \o TrimmedNonEmpty(Tail(pieces))

SliceAll(s, n) == s

\* Array.prototype.slice(0, n)
Slice(s, n) == SubSeq(s, 1, IF Len(s) < n THEN Len(s) ELSE n)

MaxInsights == 5
MaxRecommendations == 10

extractInsightsFromBullets(text) ==
    LET insightsSection == extractSection(text, "INSIGHTS:")
    IN  IF ~(\E i \in 1..Len(insightsSection) : IsBullet(insightsSection[i]))
        THEN FallbackInsights2
        ELSE Slice(TrimmedNonEmpty(SplitBullets(insightsSection, 1, <<>>)), MaxInsights)

extractInsights(text) ==
    LET insightsSection == extractSection(text, "INSIGHTS:")
    IN  IF insightsSection = <<>> THEN FallbackInsights2
        ELSE Slice(TrimmedNonEmpty(SplitBullets(insightsSection, 1, <<>>)), MaxInsights)

(***************************************************************************)
(* extractRecommendations                                                  *)
(***************************************************************************)
\* String.prototype.split('\n')
RECURSIVE SplitLines(_, _, _)
SplitLines(s, i, cur) ==
    IF i > Len(s) THEN <<cur>>
    ELSE IF s[i] = "nl" THEN <<cur>> \o SplitLines(s, i + 1, <<>>)
    ELSE SplitLines(s, i + 1, Append(cur, s[i]))

\* Array.prototype.filter(line => line.trim())
RECURSIVE NonBlank(_)
NonBlank(lines) ==
    IF lines = <<>> THEN <<>>
    ELSE IF Trim(Head(lines)) = <<>> THEN NonBlank(Tail(lines))
    ELSE <<Head(lines)>> \o NonBlank(Tail(lines))

\* String.prototype.split(' - ')
RECURSIVE SplitDash(_, _, _)
SplitDash(s, i, cur) ==
    IF i > Len(s) THEN <<cur>>
    ELSE IF i + 2 <= Len(s) /\ s[i] = "sp" /\ s[i + 1] = "-" /\ s[i + 2] = "sp"
         THEN <<cur>> \o SplitDash(s, i + 3, <<>>)
    ELSE SplitDash(s, i + 1, Append(cur, s[i]))

\* Array.prototype.join(' - ')
RECURSIVE JoinDash(_)
JoinDash(parts) ==
    IF parts = <<>> THEN <<>>
    ELSE IF Len(parts) = 1 THEN parts[1]
    ELSE parts[1] \o <<"sp", "-", "sp">> \o JoinDash(Tail(parts))

\* String.prototype.includes(marker)
Includes(line, marker) == \E i \in 1..Len(line) : line[i] = marker

\* parts[0].replace(/^(STORMWATER|QSD|SWPPP|EROSION):\s*/, '')
StripMarker(part) ==
    IF part # <<>> /\ Head(part) \in Markers THEN TrimLeft(Tail(part)) ELSE part

Subcategory(line) ==
    IF Includes(line, "QSD:") THEN "QSD"
    ELSE IF Includes(line, "SWPPP:") THEN "SWPPP"
    ELSE IF Includes(line, "EROSION:") THEN "Erosion Control"
    ELSE "General"

\* the for loop over the lines, recommendations being those pushed so far
RECURSIVE ScanLines(_, _, _)
ScanLines(lines, document, recommendations) ==
    IF lines = <<>> THEN recommendations
    ELSE LET line == Head(lines)
             parts == SplitDash(line, 1, <<>>)
         IN  IF (\E m \in Markers : Includes(line, m)) /\ Len(parts) >= 2
             THEN ScanLines(Tail(lines), document,
                    Append(recommendations,
                      [ title |-> Trim(StripMarker(parts[1])),
                        content |-> Trim(JoinDash(Tail(parts))),
                        category |-> "stormwater",
                        subcategory |-> Subcategory(line),
                        citation |-> <<document.originalName, "Section",
                                       ToString(Len(recommendations) + 1)>> ]))
             ELSE ScanLines(Tail(lines), document, recommendations)

extractRecommendations(text, document) ==
    LET recommendationsSection == extractSection(text, "RECOMMENDATIONS:")
    IN  IF recommendationsSection = <<>> THEN <<ReviewRequired(document)>>
        ELSE Slice(ScanLines(NonBlank(SplitLines(recommendationsSection, 1, <<>>)),
                             document, <<>>),
                   MaxRecommendations)

(***************************************************************************)
(* parseAnalysisResponse and the fallbacks                                 *)
(***************************************************************************)
AnalysisDefault(document) ==
    <<"Document analysis for", document.originalName, "The document contains",
      document.content, "characters">>

parseAnalysisResponse(analysisText, document) ==
    LET section == extractSection(analysisText, "ANALYSIS:")
    IN  [ analysis |-> IF section # <<>> THEN section ELSE AnalysisDefault(document),
          insights |-> extractInsights(analysisText),
          recommendations |-> extractRecommendations(analysisText, document) ]

generateFallbackAnalysis(document, query) ==
    [ analysis |-> <<"Document analysis for", document.originalName>>
                   \o (IF query # "" THEN <<"Query:", query>> ELSE <<>>)
                   \o <<"The document contains", document.content, "characters",
                        "Due to AI service limitations">>,
      insights |-> FallbackInsights3,
      recommendations |-> <<ReviewRequired(document)>> ]

generateFallbackDocument(prompt) ==
    <<"# Generated Document", "**Request:**", prompt,
      "generated using fallback mode">>

(***************************************************************************)
(* AIAnalyzer.analyzeDocument and generateDocument.  One request is in     *)
(* flight at a time; an await is the boundary between two actions.         *)
(***************************************************************************)
NoText == <<"(none)">>
NoReq == [op |-> "none"]
NoReturn == [kind |-> "none"]

\* what messages.create can do: resolve with a reply whose first block is a
\* text, resolve with a first block of another type, resolve with no block
\* at all, reject with status 429, reject with any other error
CallFailures == {"429", "transport", "noBlock"}

\* catch (error) { return this.generateFallbackAnalysis(document, query) }
analyzeDocumentRethrows(document, query) ==
    [pc |-> "done", ret |-> [kind |-> "threw", value |-> <<>>]]

analyzeDocumentRetries(document, query) ==
    [pc |-> AnalyzeBranch(document), ret |-> NoReturn]

analyzeDocumentCatch(document, query) ==
    [pc |-> "done",
     ret |-> [kind |-> "returned", value |-> generateFallbackAnalysis(document, query)]]

\* catch (error) { return this.generateFallbackDocument(prompt) }
generateDocumentCatch(prompt) ==
    [pc |-> "done",
     ret |-> [kind |-> "returned", value |-> generateFallbackDocument(prompt)]]

AnalyzerIdle ==
    /\ aPc = "idle"
    /\ aReq = NoReq
    /\ apiCalls = 0
    /\ aReply = NoText
    /\ aFailed = "no"
    /\ aReturn = NoReturn

\* new AIAnalyzer(): hasApiKey = !!process.env.ANTHROPIC_API_KEY
InitAnalyzer ==
    /\ hasApiKey \in BOOLEAN
    /\ AnalyzerIdle

\* analyzeDocument up to its first await
AnalyzeDocument(document, query) ==
    /\ aPc = "idle"
    /\ aReq' = [op |-> "analyze", document |-> document, query |-> query]
    /\ apiCalls' = 0
    /\ aReply' = NoText
    /\ aFailed' = "no"
    /\ IF ~hasApiKey
       THEN /\ aPc' = "done"
            /\ aReturn' = [kind |-> "returned",
                           value |-> generateFallbackAnalysis(document, query)]
       ELSE /\ aPc' = "storage"
            /\ aReturn' = NoReturn
    /\ UNCHANGED <<hasApiKey, restA>>

\* await storage.getAllDocuments() resolves: the prompt is built and the one
\* messages.create of the branch taken (large image, image with data, image
\* without data -> analyzeTextDocument, document with context) is issued
GetAllDocumentsResolves ==
    /\ aPc = "storage"
    /\ aPc' = AnalyzeBranch(aReq.document)
    /\ UNCHANGED <<hasApiKey, aReq, apiCalls, aReply, aFailed, aReturn, restA>>

\* await storage.getAllDocuments() rejects
GetAllDocumentsRejects ==
    /\ aPc = "storage"
    /\ LET c == analyzeDocumentCatch(aReq.document, aReq.query)
       IN  /\ aPc' = c.pc
           /\ aReturn' = c.ret
    /\ aFailed' = "storage"
    /\ UNCHANGED <<hasApiKey, aReq, apiCalls, aReply, restA>>

\* messages.create resolves with a text block: the reply is parsed
AnalyzeCallResolves ==
    /\ aPc \in AnalyzeCalls
    /\ \E text \in Texts :
          /\ aReply' = text
          /\ aReturn' = [kind |-> "returned",
                         value |-> parseAnalysisResponse(text, aReq.document)]
    /\ apiCalls' = apiCalls + 1
    /\ aPc' = "done"
    /\ UNCHANGED <<hasApiKey, aReq, aFailed, restA>>

\* messages.create rejects, or response.content[0] is undefined
AnalyzeCallFails(failure) ==
    /\ aPc \in AnalyzeCalls
    /\ apiCalls' = apiCalls + 1
    /\ aFailed' = failure
    /\ LET c == analyzeDocumentCatch(aReq.document, aReq.query)
       IN  /\ aPc' = c.pc
           /\ aReturn' = c.ret
    /\ UNCHANGED <<hasApiKey, aReq, aReply, restA>>

\* generateDocument up to its await
GenerateDocument(prompt) ==
    /\ aPc = "idle"
    /\ aReq' = [op |-> "generate", prompt |-> prompt]
    /\ apiCalls' = 0
    /\ aReply' = NoText
    /\ aFailed' = "no"
    /\ IF ~hasApiKey
       THEN /\ aPc' = "done"
            /\ aReturn' = [kind |-> "returned", value |-> generateFallbackDocument(prompt)]
       ELSE /\ aPc' = "callGenerate"
            /\ aReturn' = NoReturn
    /\ UNCHANGED <<hasApiKey, restA>>

\* messages.create resolves: the first block's text, or '' when it is no text
GenerateCallResolves ==
    /\ aPc = "callGenerate"
    /\ \E text \in Texts :
          /\ aReply' = text
          /\ aReturn' = [kind |-> "returned", value |-> text]
    /\ apiCalls' = apiCalls + 1
    /\ aPc' = "done"
    /\ UNCHANGED <<hasApiKey, aReq, aFailed, restA>>

GenerateCallFails(failure) ==
    /\ aPc = "callGenerate"
    /\ apiCalls' = apiCalls + 1
    /\ aFailed' = failure
    /\ LET c == generateDocumentCatch(aReq.prompt)
       IN  /\ aPc' = c.pc
           /\ aReturn' = c.ret
    /\ UNCHANGED <<hasApiKey, aReq, aReply, restA>>

\* the caller has its answer; the analyzer is free for the next request
NextRequest ==
    /\ aPc = "done"
    /\ aPc' = "idle"
    /\ aReq' = NoReq
    /\ apiCalls' = 0
    /\ aReply' = NoText
    /\ aFailed' = "no"
    /\ aReturn' = NoReturn
    /\ UNCHANGED <<hasApiKey, restA>>

NextAnalyzer ==
    \/ \E document \in Docs, query \in Queries : AnalyzeDocument(document, query)
    \/ GetAllDocumentsResolves
    \/ GetAllDocumentsRejects
    \/ AnalyzeCallResolves
    \/ \E failure \in CallFailures : AnalyzeCallFails(failure)
    \/ \E prompt \in Prompts : GenerateDocument(prompt)
    \/ GenerateCallResolves
    \/ \E failure \in CallFailures : GenerateCallFails(failure)
    \/ NextRequest


(***************************************************************************)
(* Claims about the analyzer                                               *)
(***************************************************************************)
ParsedReply == aPc = "done" /\ aReq.op = "analyze" /\ aReply # NoText

\* C1: for every reply text given to the parser, the returned AnalysisResult
\* has a non-empty analysis, at least one insight and at least one
\* recommendation.
C1_NeverEmptyFields ==
    ParsedReply =>
        /\ aReturn.value.analysis # <<>>
        /\ aReturn.value.insights # <<>>
        /\ aReturn.value.recommendations # <<>>

Runs == 1..NumRuns
SessionIds == 1..NumRuns
Kinds == {"script", "data", "output"}
Paths == Kinds \X SessionIds
Absent == "absent"

\* what the process can leave at the output path: a JSON object, the JSON
\* value null, a JSON array or number, text that is no JSON (also a file
\* half written), something readFileSync cannot read
OutputContents == {"object", "null", "array", "garbage", "unreadable"}

\* join(this.tempDir, `script_${sessionId}.py`) and its two siblings
PathsOf(sessionId) == {<<k, sessionId>> : k \in Kinds}

\* uuidv4(): a version-4 UUID, distinct from every one handed out before
uuidv4Constant(used) == {1}

uuidv4(used) == SessionIds \ used

NotSettled == [how |-> "no"]
NoResult == [kind |-> "none"]
Undefined == "undefined"

\* the value executePythonScript resolves with
ScriptResult(settled) ==
    IF settled.how = "close"
        THEN [success |-> settled.code = 0,
              error |-> IF settled.stderr THEN "stderr" ELSE Undefined]
    ELSE IF settled.how = "error"
        THEN [success |-> FALSE, error |-> "Failed to start Python process"]
    ELSE [success |-> FALSE, error |-> "Python execution timed out after 30 seconds"]

\* cleanup(files): unlink every file that exists; a failing unlink is caught
\* and logged.  failing: the paths whose unlinkSync throws.
cleanupRaises(fsys, files, failing) ==
    [fs |-> [p \in Paths |->
               IF p \in files /\ p \notin failing THEN Absent ELSE fsys[p]],
     attempted |-> files,
     logged |-> {},
     raised |-> \E p \in files \cap failing : fsys[p] # Absent]

cleanup(fsys, files, failing) ==
    [fs |-> [p \in Paths |->
               IF p \in files /\ p \notin failing THEN Absent ELSE fsys[p]],
     attempted |-> files,
     logged |-> {p \in files \cap failing : fsys[p] # Absent},
     raised |-> FALSE]

InterpreterError ==
    [kind |-> "returned", success |-> FALSE, error |-> "Python interpreter error",
     summary |-> "Failed to execute Python analysis"]

\* the catch block of executeStormwaterAnalysis, entered with disk fsys
executeCatch(fsys, sessionId, failing, before) ==
    LET c == cleanup(fsys, PathsOf(sessionId), failing)
    IN  [fs |-> c.fs,
         attempted |-> before.attempted \cup c.attempted,
         logged |-> before.logged \cup c.logged,
         result |-> IF c.raised THEN [kind |-> "threw"] ELSE InterpreterError]

NothingYet == [attempted |-> {}, logged |-> {}]

\* executeStormwaterAnalysis from the resolution of executePythonScript on:
\* read and parse the output file, clean up, build the result
executeTail(fsys, sessionId, settled, failing) ==
    LET out == fsys[<<"output", sessionId>>]
        \* analysisResults: {} unless the file exists and parses
        analysisResults == IF out \in {Absent, "garbage"} THEN "object" ELSE out
        result == ScriptResult(settled)
        c == cleanup(fsys, PathsOf(sessionId), failing)
    IN  IF out = "unreadable"                      \* readFileSync throws
            THEN executeCatch(fsys, sessionId, failing, NothingYet)
        ELSE IF c.raised
            THEN executeCatch(c.fs, sessionId, failing, c)
        ELSE IF analysisResults = "null"           \* analysisResults.plots throws
            THEN executeCatch(c.fs, sessionId, failing, c)
        ELSE [fs |-> c.fs,
              attempted |-> c.attempted,
              logged |-> c.logged,
              result |-> [kind |-> "returned",
                          success |-> result.success,
                          error |-> result.error,
                          summary |-> IF out = "object" THEN "analysis of the script"
                                      ELSE IF result.success
                                          THEN "Python execution completed successfully"
                                      ELSE "Execution failed"]]

InitRunner ==
    /\ fs = [p \in Paths |-> Absent]
    /\ rUsed = {}
    /\ rPc = [i \in Runs |-> "idle"]
    /\ rSession = [i \in Runs |-> 0]
    /\ rProc = [i \in Runs |-> "none"]
    /\ rKill = [i \in Runs |-> FALSE]
    /\ rTimer = [i \in Runs |-> "unset"]
    /\ rSettled = [i \in Runs |-> NotSettled]
    /\ rResult = [i \in Runs |-> NoResult]
    /\ rAttempted = [i \in Runs |-> {}]
    /\ rLogged = [i \in Runs |-> {}]
    /\ rTouched = [i \in Runs |-> {}]

\* resolve(value) where every call replaces the value of the promise
ResolveLastWins(i, value) ==
    rSettled' = [rSettled EXCEPT ![i] = value]

\* resolve(value) of the promise of executePythonScript: the first call wins
Resolve(i, value) ==
    rSettled' = [rSettled EXCEPT ![i] = IF @ = NotSettled THEN value ELSE @]

\* executeStormwaterAnalysis up to `await this.executePythonScript`: both
\* files are written and python3 is spawned, the timer armed
ExecuteSpawns(i, payloads, spawns) ==
    /\ rPc[i] = "idle"
    /\ \E sessionId \in uuidv4(rUsed), data \in payloads, spawned \in spawns :
          LET written == {<<"script", sessionId>>}
                            \cup (IF data THEN {<<"data", sessionId>>} ELSE {})
          IN  /\ rUsed' = rUsed \cup {sessionId}
              /\ rSession' = [rSession EXCEPT ![i] = sessionId]
              /\ fs' = [p \in Paths |-> IF p \in written THEN p[1] ELSE fs[p]]
              /\ rTouched' = [rTouched EXCEPT ![i] = written]
              /\ rProc' = [rProc EXCEPT ![i] = IF spawned THEN "running" ELSE "spawnFailing"]
    /\ rTimer' = [rTimer EXCEPT ![i] = "armed"]
    /\ rPc' = [rPc EXCEPT ![i] = "awaiting"]
    /\ UNCHANGED <<rKill, rSettled, rResult, rAttempted, rLogged, restR>>

\* executeStormwaterAnalysis when preparing the script or a writeFileSync
\* throws: the catch block cleans up and returns
ExecuteWriteFails(i, unlinkFaults) ==
    /\ rPc[i] = "idle"
    /\ \E sessionId \in uuidv4(rUsed), data \in BOOLEAN,
          at \in {"prepare", "data", "script"}, failing \in unlinkFaults :
          LET written == IF data /\ at = "script" THEN {<<"data", sessionId>>} ELSE {}
              disk == [p \in Paths |-> IF p \in written THEN p[1] ELSE fs[p]]
              c == executeCatch(disk, sessionId, {<<k, sessionId>> : k \in failing},
                                NothingYet)
          IN  /\ at = "data" => data
              /\ rUsed' = rUsed \cup {sessionId}
              /\ rSession' = [rSession EXCEPT ![i] = sessionId]
              /\ fs' = c.fs
              /\ rResult' = [rResult EXCEPT ![i] = c.result]
              /\ rAttempted' = [rAttempted EXCEPT ![i] = c.attempted]
              /\ rLogged' = [rLogged EXCEPT ![i] = c.logged]
              /\ rTouched' = [rTouched EXCEPT ![i] = written \cup c.attempted]
    /\ rPc' = [rPc EXCEPT ![i] = "returned"]
    /\ UNCHANGED <<rProc, rKill, rTimer, rSettled, restR>>

\* pythonProcess.on('error'): python3 could not be started
SpawnError(i) ==
    /\ rProc[i] = "spawnFailing"
    /\ rProc' = [rProc EXCEPT ![i] = "failed"]
    /\ Resolve(i, [how |-> "error"])
    /\ UNCHANGED <<fs, rUsed, rPc, rSession, rKill, rTimer, rResult, rAttempted,
                   rLogged, rTouched, restR>>

\* the script, while it runs, writes its output file
ProcessWritesOutput(i, contents) ==
    /\ rProc[i] = "running"
    /\ \E content \in contents :
          fs' = [fs EXCEPT ![<<"output", rSession[i]>>] = content]
    /\ rTouched' = [rTouched EXCEPT ![i] = @ \cup {<<"output", rSession[i]>>}]
    /\ UNCHANGED <<rUsed, rPc, rSession, rProc, rKill, rTimer, rSettled, rResult,
                   rAttempted, rLogged, restR>>

\* the process exits by itself; pythonProcess.on('close') resolves
ProcessExits(i, stderrs) ==
    /\ rProc[i] = "running"
    /\ \E code \in {0, 1}, stderr \in stderrs :
          /\ rProc' = [rProc EXCEPT ![i] = IF code = 0 THEN "exited0" ELSE "exitedNonZero"]
          /\ Resolve(i, [how |-> "close", code |-> code, stderr |-> stderr])
    /\ rKill' = [rKill EXCEPT ![i] = FALSE]
    /\ UNCHANGED <<fs, rUsed, rPc, rSession, rTimer, rResult, rAttempted, rLogged,
                   rTouched, restR>>

\* the setTimeout callback, 30 s after the spawn: kill() and resolve
TimerFires(i) ==
    /\ rTimer[i] = "armed"
    /\ rTimer' = [rTimer EXCEPT ![i] = "fired"]
    /\ rKill' = [rKill EXCEPT ![i] = rProc[i] = "running"]
    /\ Resolve(i, [how |-> "timeout", running |-> rProc[i] = "running"])
    /\ UNCHANGED <<fs, rUsed, rPc, rSession, rProc, rResult, rAttempted, rLogged,
                   rTouched, restR>>

\* the signal reaches the process and ends it ('close' finds the promise resolved)
KillDelivered(i) ==
    /\ rKill[i]
    /\ rProc[i] = "running"
    /\ rProc' = [rProc EXCEPT ![i] = "killed"]
    /\ rKill' = [rKill EXCEPT ![i] = FALSE]
    /\ UNCHANGED <<fs, rUsed, rPc, rSession, rTimer, rSettled, rResult, rAttempted,
                   rLogged, rTouched, restR>>

\* executeStormwaterAnalysis after the await, to its return
ExecuteResumes(i, unlinkFaults) ==
    /\ rPc[i] = "awaiting"
    /\ rSettled[i] # NotSettled
    /\ \E failing \in unlinkFaults :
          LET t == executeTail(fs, rSession[i], rSettled[i],
                               {<<k, rSession[i]>> : k \in failing})
          IN  /\ fs' = t.fs
              /\ rResult' = [rResult EXCEPT ![i] = t.result]
              /\ rAttempted' = [rAttempted EXCEPT ![i] = t.attempted]
              /\ rLogged' = [rLogged EXCEPT ![i] = t.logged]
              /\ rTouched' = [rTouched EXCEPT ![i] =
                                 @ \cup {<<"output", rSession[i]>>} \cup t.attempted]
    /\ rPc' = [rPc EXCEPT ![i] = "returned"]
    /\ UNCHANGED <<rUsed, rSession, rProc, rKill, rTimer, rSettled, restR>>

\* one invocation, with every fault of the disk and of the process
NextRunner ==
    \E i \in {1} :
        \/ ExecuteSpawns(i, BOOLEAN, BOOLEAN)
        \/ ExecuteWriteFails(i, SUBSET Kinds)
        \/ SpawnError(i)
        \/ ProcessWritesOutput(i, OutputContents)
        \/ ProcessExits(i, BOOLEAN)
        \/ TimerFires(i)
        \/ KillDelivered(i)
        \/ ExecuteResumes(i, SUBSET Kinds)

\* overlapping invocations, each with a data payload, python3 starting and
\* every file operation succeeding
NextOverlap ==
    \E i \in Runs :
        \/ ExecuteSpawns(i, {TRUE}, {TRUE})
        \/ ProcessWritesOutput(i, {"object"})
        \/ ProcessExits(i, {TRUE})
        \/ TimerFires(i)
        \/ KillDelivered(i)
        \/ ExecuteResumes(i, {{}})

\* overlapping invocations in which python3 may fail to start, with
\* scripts that write no output file
NextSettle ==
    \E i \in Runs :
        \/ ExecuteSpawns(i, {TRUE}, BOOLEAN)
        \/ SpawnError(i)
        \/ ProcessExits(i, {TRUE})
        \/ TimerFires(i)
        \/ KillDelivered(i)
        \/ ExecuteResumes(i, {{}})

(***************************************************************************)
(* Claims about the runner                                                 *)
(***************************************************************************)
Returned(i) == rPc[i] = "returned"

\* the timer fired while the process was still running and resolved the promise
TimedOut(i) == rSettled[i].how = "timeout" /\ rSettled[i].running

ExitedZero(i) == rSettled[i].how = "close" /\ rSettled[i].code = 0

\* C4: after a run whose process was still running at the timeout has
\* returned, none of its three temp files exists, then or later.  Stated
\* for the runs in which every deletion succeeded, so that a file left behind
\* is not one whose unlink failed.
C4_NoTempFilesAfterTimeout ==
    \A i \in Runs :
        (Returned(i) /\ TimedOut(i) /\ rLogged[i] = {}) =>
            \A p \in PathsOf(rSession[i]) : fs[p] = Absent

\* C5: the success flag of the result is true exactly when the process
\* exited with status 0 before the timeout fired, whatever the output file is.
C5_SuccessIffExitZero ==
    \A i \in Runs :
        (Returned(i) /\ rResult[i].kind = "returned") =>
            (rResult[i].success <=> ExitedZero(i))

\* C6: every invocation, on every path, has attempted the deletion of its
\* script, data and output files when it returns; a deletion that fails is
\* logged, raises nothing, and the result is the one the invocation returns
\* when every deletion succeeds.
C6_CleanedUpBeforeReturn ==
    /\ [](\A i \in Runs :
            Returned(i) =>
                /\ rResult[i].kind = "returned"
                /\ rAttempted[i] = PathsOf(rSession[i]))
    /\ [][\A i \in Runs :
            /\ (rPc[i] = "awaiting" /\ rPc'[i] = "returned") =>
                  rResult'[i] = executeTail(fs, rSession[i], rSettled[i], {}).result
            /\ (rPc[i] = "idle" /\ rPc'[i] = "returned") =>
                  rResult'[i] = InterpreterError]_vars

C6_Witness ==
    /\ Returned(1)
    /\ rLogged[1] # {}
    /\ rResult[1].kind = "returned"
    /\ rResult[1].success

\* C7: if the process has not exited when the 30 s timer fires, it is sent
\* the kill signal and the result is success=false with the timeout error.
C7_TimeoutKillsAndReports ==
    \A i \in Runs :
        (Returned(i) /\ TimedOut(i)) =>
            /\ rProc[i] = "running" => rKill[i]
            /\ rResult[i].kind = "returned"
            /\ ~rResult[i].success
            /\ rResult[i].error = "Python execution timed out after 30 seconds"

\* C8: executeStormwaterAnalysis never throws, and a result with
\* success=false carries an error.
C8_FailureCarriesError ==
    \A i \in Runs :
        Returned(i) =>
            /\ rResult[i].kind = "returned"
            /\ ~rResult[i].success => rResult[i].error # Undefined

\* C9: overlapping invocations have pairwise distinct script, data and
\* output paths; each invocation and its process touch only their own
\* paths, and a result taken from a process exit is that of its own process.
C9_DistinctNamespaces ==
    \A i \in Runs :
        /\ rTouched[i] \subseteq PathsOf(rSession[i])
        /\ \A j \in Runs \ {i} :
              (rSession[i] # 0 /\ rSession[j] # 0) =>
                  /\ rSession[i] # rSession[j]
                  /\ PathsOf(rSession[i]) \cap PathsOf(rSession[j]) = {}
                  /\ rTouched[i] \cap rTouched[j] = {}
        /\ (Returned(i) /\ rSettled[i].how = "close") =>
              /\ rProc[i] = (IF rSettled[i].code = 0 THEN "exited0" ELSE "exitedNonZero")
              /\ rResult[i].success = (rSettled[i].code = 0)

C9_Witness ==
    /\ rPc[1] = "awaiting" /\ rPc[2] = "awaiting"
    /\ rProc[1] = "running" /\ rProc[2] = "running"
    /\ fs[<<"output", rSession[1]>>] # Absent
    /\ fs[<<"output", rSession[2]>>] # Absent

(***************************************************************************)
(* PluginManager.  Three plugins stand for the implementations of          *)
(* AIPlugin: two estimators of equal declared resources that store their   *)
(* health and set it to 'error' when process fails, and a chat plugin that *)
(* derives its health from its counters, reports no cpu while it is not    *)
(* running and also looks at request.data.type.  The declared resources   *)
(* are such that the estimators have the same score while healthy and the  *)
(* three plugins together exceed maxCpuUsage.                              *)
(***************************************************************************)
PluginIds == {"estimatorA", "estimatorB", "chat"}
NoPlugin == "null"

RequestTypes == {"costing", "site", "chat", "other"}
DataTypes == {"none", "chat"}

\* request.timeout?: absent, or a number of milliseconds
NoTimeout == [given |-> FALSE, ms |-> 0]
Timeouts == {NoTimeout, [given |-> TRUE, ms |-> 0], [given |-> TRUE, ms |-> 5000]}
Requests == [type : RequestTypes, dataType : DataTypes, timeout : Timeouts]

DefaultTimeout == 30000

\* request.timeout || 30000
timeoutOf(request) ==
    IF ~request.timeout.given \/ request.timeout.ms = 0
    THEN DefaultTimeout ELSE request.timeout.ms

StoresHealth(p) == p \in {"estimatorA", "estimatorB"}

memoryUsage(p) == IF p = "chat" THEN 256 ELSE 160

cpuUsage(p) == IF p = "chat" THEN 60 ELSE 12

canHandle(p, request) ==
    CASE p = "estimatorA" -> request.type \in {"costing"}
      [] p = "estimatorB" -> request.type \in {"costing", "site"}
      [] p = "chat" -> \/ request.type \in {"chat"}
                       \/ request.dataType \in {"chat"}

MaxMemoryUsage == 4096

MaxCpuUsage == 80

Registered == {plugins[k] : k \in 1..Len(plugins)}

Position(p) == CHOOSE k \in 1..Len(plugins) : plugins[k] = p

getStatus(p) ==
    [health |-> IF StoresHealth(p) THEN pHealth[p]
                ELSE IF pErrorCount[p] * 10 > pRequestCount[p]
                     THEN "degraded" ELSE "healthy",
     isRunning |-> pRunning[p]]

getResourceUsage(p) ==
    [memory |-> memoryUsage(p),
     cpu |-> IF StoresHealth(p) \/ pRunning[p] THEN cpuUsage(p) ELSE 0,
     queuedRequests |-> 0]

Max(a, b) == IF a >= b THEN a ELSE b

\* The score, times 1024: usage.memory / 1024 * 100 is a fraction, and
\* only the order of the scores matters.
scorePlugin(p, request) ==
    LET status == getStatus(p)
        usage == getResourceUsage(p)
        health == CASE status.health = "healthy" -> 100
                    [] status.health = "degraded" -> 50
                    [] OTHER -> 0
    IN  1024 * health
        + 1024 * Max(0, 100 - usage.cpu)
        + Max(0, 1024 * 100 - usage.memory * 100)
        - 1024 * usage.queuedRequests * 10

\* Array.prototype.sort with the comparator score(b) - score(a): a stable
\* sort, so an element goes behind the elements that compare equal to it.
RECURSIVE SortByScore(_, _)
SortByScore(s, request) ==
    IF s = <<>> THEN <<>>
    ELSE LET front == SortByScore(SubSeq(s, 1, Len(s) - 1), request)
             last == s[Len(s)]
             k == Cardinality({j \in 1..Len(front) :
                     scorePlugin(front[j], request)
                         >= scorePlugin(last, request)})
         IN  SubSeq(front, 1, k) \o <<last>>
                 \o SubSeq(front, k + 1, Len(front))

Suitable(request) ==
    SelectSeq(plugins, LAMBDA p : pActive[p] /\ canHandle(p, request))

findBestPluginFirstSuitable(request) ==
    IF Suitable(request) = <<>> THEN NoPlugin ELSE Head(Suitable(request))

findBestPlugin(request) ==
    LET suitablePlugins == SortByScore(Suitable(request), request)
    IN  IF suitablePlugins = <<>> THEN NoPlugin ELSE Head(suitablePlugins)

RECURSIVE TotalMemoryUsage(_)
TotalMemoryUsage(S) ==
    IF S = {} THEN 0
    ELSE LET p == CHOOSE q \in S : TRUE
         IN  getResourceUsage(p).memory + TotalMemoryUsage(S \ {p})

RECURSIVE TotalCpuUsage(_)
TotalCpuUsage(S) ==
    IF S = {} THEN 0
    ELSE LET p == CHOOSE q \in S : TRUE
         IN  getResourceUsage(p).cpu + TotalCpuUsage(S \ {p})

getTotalMemoryUsage == TotalMemoryUsage(Registered)

getTotalCpuUsage == TotalCpuUsage(Registered)

canLoadPlugin(p) ==
    /\ getTotalMemoryUsage + memoryUsage(p) <= MaxMemoryUsage
    /\ getTotalCpuUsage + cpuUsage(p) <= MaxCpuUsage

IdleCall ==
    [status |-> "idle",
     request |-> [type |-> "other", dataType |-> "none", timeout |-> NoTimeout],
     invoked |-> NoPlugin, handler |-> "none", outcome |-> "none",
     timeoutMs |-> 0]

InitPlugins ==
    /\ plugins = <<>>
    /\ pActive = [p \in PluginIds |-> FALSE]
    /\ pRunning = [p \in PluginIds |-> FALSE]
    /\ pHealth = [p \in PluginIds |-> "healthy"]
    /\ pRequestCount = [p \in PluginIds |-> 0]
    /\ pErrorCount = [p \in PluginIds |-> 0]
    /\ pPhase = [p \in PluginIds |-> "none"]
    /\ pCall = IdleCall

\* registerPlugin up to its await: the resource check, then the
\* synchronous body of plugin.initialize().
RegisterPlugin(p) ==
    /\ pPhase[p] = "none"
    /\ canLoadPlugin(p)
    /\ pActive' = [pActive EXCEPT ![p] = TRUE]
    /\ pRunning' = [pRunning EXCEPT ![p] = TRUE]
    /\ pPhase' = [pPhase EXCEPT ![p] = "registering"]
    /\ UNCHANGED <<plugins, pHealth, pRequestCount, pErrorCount, pCall,
                   restP>>

\* registerPlugin after its await: Map.set keeps the place of a key that
\* is already there.
RegisterCompletes(p) ==
    /\ pPhase[p] = "registering"
    /\ plugins' = IF p \in Registered THEN plugins ELSE Append(plugins, p)
    /\ pActive' = [pActive EXCEPT ![p] = TRUE]
    /\ pPhase' = [pPhase EXCEPT ![p] = "none"]
    /\ UNCHANGED <<pRunning, pHealth, pRequestCount, pErrorCount, pCall,
                   restP>>

\* unregisterPlugin up to its await: the synchronous body of shutdown().
UnregisterPlugin(p) ==
    /\ pPhase[p] = "none"
    /\ p \in Registered
    /\ pActive' = [pActive EXCEPT ![p] = FALSE]
    /\ pRunning' = [pRunning EXCEPT ![p] = FALSE]
    /\ pPhase' = [pPhase EXCEPT ![p] = "unregistering"]
    /\ UNCHANGED <<plugins, pHealth, pRequestCount, pErrorCount, pCall,
                   restP>>

UnregisterCompletes(p) ==
    /\ pPhase[p] = "unregistering"
    /\ pActive' = [pActive EXCEPT ![p] = FALSE]
    /\ plugins' = SelectSeq(plugins, LAMBDA q : q # p)
    /\ pPhase' = [pPhase EXCEPT ![p] = "none"]
    /\ UNCHANGED <<pRunning, pHealth, pRequestCount, pErrorCount, pCall,
                   restP>>

\* The 30 s sweep: restartPlugin, up to its first await, for every plugin
\* in error state that no other call of the manager is awaiting.
Restarted ==
    {p \in Registered : getStatus(p).health = "error" /\ pPhase[p] = "none"}

checkPluginHealth ==
    /\ Restarted # {}
    /\ pActive' = [p \in PluginIds |->
                      IF p \in Restarted THEN FALSE ELSE pActive[p]]
    /\ pRunning' = [p \in PluginIds |->
                      IF p \in Restarted THEN FALSE ELSE pRunning[p]]
    /\ pPhase' = [p \in PluginIds |->
                      IF p \in Restarted THEN "restarting" ELSE pPhase[p]]
    /\ UNCHANGED <<plugins, pHealth, pRequestCount, pErrorCount, pCall,
                   restP>>

\* restartPlugin after shutdown(): the synchronous body of initialize(),
\* which leaves status.health as it is.
RestartCompletes(p) ==
    /\ pPhase[p] = "restarting"
    /\ pActive' = [pActive EXCEPT ![p] = TRUE]
    /\ pRunning' = [pRunning EXCEPT ![p] = TRUE]
    /\ pPhase' = [pPhase EXCEPT ![p] = "none"]
    /\ UNCHANGED <<plugins, pHealth, pRequestCount, pErrorCount, pCall,
                   restP>>

\* processRequest without its health check.
processRequestNoHealthCheck(request) ==
    /\ pCall.status = "idle"
    /\ LET plugin == findBestPlugin(request)
       IN  IF plugin = NoPlugin
           THEN /\ pCall' = [IdleCall EXCEPT !.status = "settled",
                                !.request = request, !.outcome = "noPlugin"]
                /\ UNCHANGED pRequestCount
           ELSE /\ pRequestCount[plugin] < MaxRequests
                /\ pCall' = [status |-> "running", request |-> request,
                             invoked |-> plugin, handler |-> "pending",
                             outcome |-> "none",
                             timeoutMs |-> timeoutOf(request)]
                /\ pRequestCount' =
                       IF StoresHealth(plugin) THEN pRequestCount
                       ELSE [pRequestCount EXCEPT ![plugin] = @ + 1]
    /\ UNCHANGED <<plugins, pActive, pRunning, pHealth, pErrorCount, pPhase,
                   restP>>

\* processRequest up to its await: selection, the health check, and the
\* synchronous start of plugin.process inside executeWithTimeout.
processRequest(request) ==
    /\ pCall.status = "idle"
    /\ LET plugin == findBestPlugin(request)
       IN  IF plugin = NoPlugin
           THEN /\ pCall' = [IdleCall EXCEPT !.status = "settled",
                                !.request = request, !.outcome = "noPlugin"]
                /\ UNCHANGED pRequestCount
           ELSE IF getStatus(plugin).health = "error"
           THEN /\ pCall' = [IdleCall EXCEPT !.status = "settled",
                                !.request = request, !.outcome = "errorState"]
                /\ UNCHANGED pRequestCount
           ELSE /\ pRequestCount[plugin] < MaxRequests
                /\ pCall' = [status |-> "running", request |-> request,
                             invoked |-> plugin, handler |-> "pending",
                             outcome |-> "none",
                             timeoutMs |-> timeoutOf(request)]
                /\ pRequestCount' =
                       IF StoresHealth(plugin) THEN pRequestCount
                       ELSE [pRequestCount EXCEPT ![plugin] = @ + 1]
    /\ UNCHANGED <<plugins, pActive, pRunning, pHealth, pErrorCount, pPhase,
                   restP>>

\* plugin.process resolves and its result replaces what the caller got.
HandlerResolvesLate ==
    /\ pCall.handler = "pending"
    /\ pCall' = [pCall EXCEPT !.handler = "resolved",
                    !.status = "settled", !.outcome = "result"]
    /\ UNCHANGED <<plugins, pActive, pRunning, pHealth, pRequestCount,
                   pErrorCount, pPhase, restP>>

\* plugin.process resolves; the first settlement of the promise of
\* executeWithTimeout wins.
HandlerResolves ==
    /\ pCall.handler = "pending"
    /\ pCall' = IF pCall.status = "running"
                THEN [pCall EXCEPT !.handler = "resolved",
                         !.status = "settled", !.outcome = "result"]
                ELSE [pCall EXCEPT !.handler = "resolved"]
    /\ UNCHANGED <<plugins, pActive, pRunning, pHealth, pRequestCount,
                   pErrorCount, pPhase, restP>>

\* plugin.process rejects: its catch counts the error and, in a plugin
\* that stores its health, sets it to 'error'.
HandlerRejects ==
    /\ pCall.handler = "pending"
    /\ IF StoresHealth(pCall.invoked)
       THEN /\ pHealth' = [pHealth EXCEPT ![pCall.invoked] = "error"]
            /\ UNCHANGED pErrorCount
       ELSE /\ pErrorCount' = [pErrorCount EXCEPT ![pCall.invoked] = @ + 1]
            /\ UNCHANGED pHealth
    /\ pCall' = IF pCall.status = "running"
                THEN [pCall EXCEPT !.handler = "rejected",
                         !.status = "settled", !.outcome = "handlerError"]
                ELSE [pCall EXCEPT !.handler = "rejected"]
    /\ UNCHANGED <<plugins, pActive, pRunning, pRequestCount, pPhase,
                   restP>>

\* The setTimeout of executeWithTimeout fires, timeoutMs after the call,
\* before process has settled.
TimeoutFires ==
    /\ pCall.status = "running"
    /\ pCall' = [pCall EXCEPT !.status = "settled", !.outcome = "timeout"]
    /\ UNCHANGED <<plugins, pActive, pRunning, pHealth, pRequestCount,
                   pErrorCount, pPhase, restP>>

\* The caller has its answer and the handler has settled: the next request.
NextCall ==
    /\ pCall.status = "settled"
    /\ pCall.handler # "pending"
    /\ pCall' = IdleCall
    /\ UNCHANGED <<plugins, pActive, pRunning, pHealth, pRequestCount,
                   pErrorCount, pPhase, restP>>

NextPlugins ==
    \/ \E p \in PluginIds : RegisterPlugin(p)
    \/ \E p \in PluginIds : RegisterCompletes(p)
    \/ \E p \in PluginIds : UnregisterPlugin(p)
    \/ \E p \in PluginIds : UnregisterCompletes(p)
    \/ checkPluginHealth
    \/ \E p \in PluginIds : RestartCompletes(p)
    \/ \E request \in Requests : processRequest(request)
    \/ HandlerResolves
    \/ HandlerRejects
    \/ TimeoutFires
    \/ NextCall

(***************************************************************************)
(* Claims about the plugin manager                                         *)
(***************************************************************************)
\* The step of processRequest that hands the request to a handler.
Invokes == pCall.status = "idle" /\ pCall'.invoked # NoPlugin

\* h is, at the time of dispatch, of maximal score among the handlers in
\* S and the earliest registered of those of its score.
BestOf(h, S, request) ==
    /\ h \in S
    /\ \A q \in S :
          /\ scorePlugin(q, request) <= scorePlugin(h, request)
          /\ scorePlugin(q, request) = scorePlugin(h, request)
                => Position(h) <= Position(q)

\* C10, as stated: the handler dispatch invokes is, among the registered
\* handlers whose canHandle(request) is true, one of maximal score at the
\* time of dispatch, and the earliest registered of those.
C10_InvokesBestRegistered ==
    [][Invokes =>
          BestOf(pCall'.invoked,
                 {p \in Registered : canHandle(p, pCall'.request)},
                 pCall'.request)]_vars

\* C10, amended: the handler dispatch invokes is, among the registered
\* handlers that are active and whose canHandle(request) is true, one of
\* maximal score at the time of dispatch, and the earliest registered of
\* those.
C10_InvokesBestActive ==
    [][Invokes =>
          BestOf(pCall'.invoked,
                 {p \in Registered : pActive[p] /\ canHandle(p, pCall'.request)},
                 pCall'.request)]_vars

\* Both estimators can handle the request and have the same score; the
\* one registered first, estimatorB, has been invoked.
C10_Witness ==
    /\ plugins = <<"estimatorB", "chat", "estimatorA">>
    /\ pCall.status = "running"
    /\ pCall.request.type = "costing"
    /\ pCall.request.dataType = "chat"
    /\ pCall.invoked = "estimatorB"
    /\ \A p \in PluginIds : pActive[p] /\ pPhase[p] = "none"
    /\ scorePlugin("estimatorA", pCall.request)
           = scorePlugin("estimatorB", pCall.request)
    /\ scorePlugin("chat", pCall.request)
           < scorePlugin("estimatorB", pCall.request)

\* The step of processRequest that selects, and a step that settles it.
Dispatches == pCall.status = "idle" /\ pCall'.status # "idle"

Settles == pCall.status # "settled" /\ pCall'.status = "settled"

\* C11, as stated: a dispatch ends with the handler's result, with "no
\* handler found" or with the timeout error and in no other way, and it
\* ends with "no handler found" exactly when no registered handler can
\* handle the request.
C11_ThreeOutcomes ==
    [][/\ Settles => pCall'.outcome \in {"result", "noPlugin", "timeout"}
       /\ Dispatches =>
             (pCall'.outcome = "noPlugin"
                 <=> {p \in Registered : canHandle(p, pCall'.request)} = {})]_vars

\* C11, amended: a dispatch ends with the handler's result, with "no
\* handler found", with "plugin is in error state", with the error the
\* handler threw or with the timeout error and in no other way; it ends
\* with "no handler found" exactly when no registered active handler can
\* handle the request, and with "plugin is in error state" exactly when the
\* best of those handlers reports the health 'error'.
C11_FiveOutcomes ==
    [][/\ Settles =>
             pCall'.outcome \in {"result", "noPlugin", "errorState",
                                 "handlerError", "timeout"}
       /\ Dispatches =>
             LET request == pCall'.request
                 able == {p \in Registered : pActive[p] /\ canHandle(p, request)}
             IN  /\ pCall'.outcome = "noPlugin" <=> able = {}
                 /\ pCall'.outcome = "errorState"
                       <=> \E h \in able : /\ BestOf(h, able, request)
                                            /\ getStatus(h).health = "error"
                 /\ pCall'.outcome \in {"noPlugin", "errorState", "none"}
       /\ (Settles /\ ~Dispatches) =>
             /\ pCall.status = "running"
             /\ pCall'.outcome \in {"result", "handlerError", "timeout"}]_vars

\* A dispatch has failed because the selected estimator is in error state
\* although the other estimator is registered, active and healthy enough
\* to be invoked.
C11_Witness ==
    /\ pCall.status = "settled"
    /\ pCall.outcome = "errorState"
    /\ pCall.request.type = "costing"
    /\ \E p \in Registered :
          /\ pActive[p]
          /\ canHandle(p, pCall.request)
          /\ getStatus(p).health # "error"

\* The step in which the timer of executeWithTimeout fires while the
\* handler has not settled.
TimesOut ==
    pCall.status = "running" /\ pCall'.status = "settled"
        /\ pCall'.handler = "pending"

\* What C12 says of a dispatch whose effective timeout is given by
\* timeoutIs: the timer is set to it; when it fires before the handler has
\* settled the dispatch rejects with the timeout error and the handler stays
\* registered and as selectable as it was; whatever the handler does later
\* leaves the rejected dispatch as it is.
TimeoutContract(timeoutIs(_)) ==
    /\ Invokes => pCall'.timeoutMs = timeoutIs(pCall'.request)
    /\ TimesOut =>
          /\ pCall'.outcome = "timeout"
          /\ plugins' = plugins
          /\ pActive' = pActive
          /\ getStatus(pCall.invoked)' = getStatus(pCall.invoked)
    /\ (pCall.status = "settled" /\ pCall.outcome = "timeout"
           /\ pCall'.status # "idle") =>
          /\ pCall'.status = "settled"
          /\ pCall'.outcome = "timeout"

\* C12, as stated: the timeout is the request's, 30 seconds when the
\* request gives none; a handler that has not settled by then makes the
\* dispatch reject with the timeout error, stays registered and selectable,
\* and its later completion does not touch the rejected dispatch.
C12_TimeoutAsGiven ==
    [][TimeoutContract(LAMBDA request :
          IF request.timeout.given THEN request.timeout.ms
          ELSE 30000)]_vars

\* C12, amended: as stated, but the timeout is 30 seconds also when the
\* request gives a timeout of 0.
C12_TimeoutOrDefault ==
    [][TimeoutContract(LAMBDA request :
          IF request.timeout.given /\ request.timeout.ms # 0
          THEN request.timeout.ms ELSE 30000)]_vars

\* A dispatch with a timeout of its own was rejected by the timer, and the
\* handler has completed since.
C12_Witness ==
    /\ pCall.status = "settled"
    /\ pCall.outcome = "timeout"
    /\ pCall.timeoutMs = 5000
    /\ pCall.handler = "resolved"
    /\ pCall.invoked \in Registered

(***************************************************************************)
(* Storage: documents, their analyses and recommendations; the background  *)
(* analysis the upload route starts with setImmediate; the delete route.   *)
(* Every await is the boundary between two actions.                        *)
(***************************************************************************)
DocIds == 1..NumDocs
Impls == {"MemStorage", "DatabaseStorage"}

\* The schema is not part of the sources: a foreign key from a child table
\* to documents is either declared (an insert of a child without its parent
\* and a delete of a parent with children fail) or not.
NoForeignKeys == [analyses |-> FALSE, recommendations |-> FALSE]
ForeignKeys == [analyses : BOOLEAN, recommendations : BOOLEAN]

\* the storage before any request, as the other parts see it
\* sourceDocumentId: rec.sourceDocumentId || null
NoDocument == 0

\* The document with id d, as the analyzer is handed it.
documentOf(d) ==
    [originalName |-> IF d = 1 THEN "plan.pdf" ELSE "scan.gif",
     content |-> "plain"]

\* The citations of the recommendations of an AnalysisResult for the
\* document, in their order: that of the fallback and of
\* extractRecommendations without a section, or those of the first n lines
\* of the section.
AnalyzerCitations(document) ==
    {<<ReviewRequired(document).citation>>}
        \cup {[k \in 1..n |-> <<document.originalName, "Section", ToString(k)>>] :
                 n \in 0..MaxRecs}

\* generateTemplateRecommendations: the citations of the six templates.
Templates ==
    {[sourceDocumentId |-> NoDocument, citation |-> <<c>>] :
        c \in {"EPA Construction Guidelines, Section 3.2",
               "NPDES Permit Requirements, Appendix B",
               "Construction BMP Manual, Chapter 5",
               "State SWPPP Guidelines, Section 4.1",
               "Erosion Control Handbook, Page 145",
               "Standard Construction Details, Sheet E-01"}}

InitStorageIdle ==
    /\ sImpl = "DatabaseStorage"
    /\ sFk = NoForeignKeys
    /\ sNextId = 1
    /\ sDocuments = {}
    /\ sAnalyses = [d \in DocIds |-> 0]
    /\ sRecs = [d \in DocIds |-> 0]
    /\ bgPc = [d \in DocIds |-> "none"]
    /\ bgLeft = [d \in DocIds |-> <<>>]
    /\ delPc = [d \in DocIds |-> "idle"]
    /\ sStored = {}

InitStorage ==
    /\ sImpl \in Impls
    /\ sFk \in IF sImpl = "MemStorage" THEN {NoForeignKeys} ELSE ForeignKeys
    /\ sNextId = 1
    /\ sDocuments = {}
    /\ sAnalyses = [d \in DocIds |-> 0]
    /\ sRecs = [d \in DocIds |-> 0]
    /\ bgPc = [d \in DocIds |-> "none"]
    /\ bgLeft = [d \in DocIds |-> <<>>]
    /\ delPc = [d \in DocIds |-> "idle"]
    /\ sStored = {}

\* registerRoutes, before any route exists: generateTemplateRecommendations
\* stores the templates unless a recommendation is there already.
SeedTemplates ==
    /\ sNextId = 1
    /\ sStored = {}
    /\ sStored' = Templates
    /\ UNCHANGED <<sImpl, sFk, sNextId, sDocuments, sAnalyses, sRecs, bgPc,
                   bgLeft, delPc, restS>>

\* POST /api/documents/upload with saveToLibrary: createDocument, then the
\* background analysis is queued.
UploadDocument ==
    /\ sNextId \in DocIds
    /\ sDocuments' = sDocuments \cup {sNextId}
    /\ sNextId' = sNextId + 1
    /\ bgPc' = [bgPc EXCEPT ![sNextId] = "analyzing"]
    /\ UNCHANGED <<sImpl, sFk, sAnalyses, sRecs, bgLeft, delPc, sStored, restS>>

\* An insert of a child row of document d succeeds.
insertAccepted(table, d) == ~sFk[table] \/ d \in sDocuments

\* The background analysis after analyzeDocument, which always returns:
\* createAiAnalysis, then generateFromAnalysis over the recommendations of
\* the result, of which citations are those of the recommendations.
StoreAnalysis(d, citations) ==
    /\ bgPc[d] = "analyzing"
    /\ IF insertAccepted("analyses", d)
       THEN /\ sAnalyses' = [sAnalyses EXCEPT ![d] = @ + 1]
            /\ bgLeft' = [bgLeft EXCEPT ![d] = citations]
            /\ bgPc' = [bgPc EXCEPT ![d] = IF citations = <<>> THEN "done"
                                           ELSE "storing"]
       ELSE /\ bgPc' = [bgPc EXCEPT ![d] = "failed"]
            /\ UNCHANGED <<sAnalyses, bgLeft>>
    /\ UNCHANGED <<sImpl, sFk, sNextId, sDocuments, sRecs, delPc, sStored, restS>>

\* generateFromAnalysis: one createRecommendation with sourceDocumentId d.
StoreRecommendation(d) ==
    /\ bgPc[d] = "storing"
    /\ IF insertAccepted("recommendations", d)
       THEN /\ sRecs' = [sRecs EXCEPT ![d] = @ + 1]
            /\ sStored' = sStored \cup
                  {[sourceDocumentId |-> d, citation |-> Head(bgLeft[d])]}
            /\ bgLeft' = [bgLeft EXCEPT ![d] = Tail(@)]
            /\ bgPc' = [bgPc EXCEPT ![d] = IF Len(bgLeft[d]) = 1 THEN "done"
                                           ELSE "storing"]
       ELSE /\ bgPc' = [bgPc EXCEPT ![d] = "failed"]
            /\ UNCHANGED <<sRecs, bgLeft, sStored>>
    /\ UNCHANGED <<sImpl, sFk, sNextId, sDocuments, sAnalyses, delPc, restS>>

\* DELETE /api/documents/:id up to deleteDocument: getDocument finds d.
DeleteRequested(d) ==
    /\ delPc[d] \in {"idle", "rejected"}
    /\ d \in sDocuments
    /\ delPc' = [delPc EXCEPT ![d] = "found"]
    /\ UNCHANGED <<sImpl, sFk, sNextId, sDocuments, sAnalyses, sRecs, bgPc,
                   bgLeft,
                   sStored, restS>>

\* MemStorage.deleteDocument: this.documents.delete(id).
MemDeleteDocument(d) ==
    /\ sImpl = "MemStorage"
    /\ delPc[d] = "found"
    /\ sDocuments' = sDocuments \ {d}
    /\ delPc' = [delPc EXCEPT ![d] = "completed"]
    /\ UNCHANGED <<sImpl, sFk, sNextId, sAnalyses, sRecs, bgPc, bgLeft,
                   sStored, restS>>

\* DatabaseStorage.deleteDocument, first statement.
DbDeleteAnalyses(d) ==
    /\ sImpl = "DatabaseStorage"
    /\ delPc[d] = "found"
    /\ sAnalyses' = [sAnalyses EXCEPT ![d] = 0]
    /\ delPc' = [delPc EXCEPT ![d] = "analysesDeleted"]
    /\ UNCHANGED <<sImpl, sFk, sNextId, sDocuments, sRecs, bgPc, bgLeft,
                   sStored, restS>>

\* DatabaseStorage.deleteDocument, second statement.
DbDeleteRecommendations(d) ==
    /\ delPc[d] = "analysesDeleted"
    /\ sRecs' = [sRecs EXCEPT ![d] = 0]
    /\ delPc' = [delPc EXCEPT ![d] = "recommendationsDeleted"]
    /\ UNCHANGED <<sImpl, sFk, sNextId, sDocuments, sAnalyses, bgPc, bgLeft,
                   sStored, restS>>

\* DatabaseStorage.deleteDocument, third statement: it fails when an
\* enforced foreign key still points at the document.
DbDeleteDocument(d) ==
    /\ delPc[d] = "recommendationsDeleted"
    /\ IF \/ sFk.analyses /\ sAnalyses[d] > 0
          \/ sFk.recommendations /\ sRecs[d] > 0
       THEN /\ delPc' = [delPc EXCEPT ![d] = "rejected"]
            /\ UNCHANGED sDocuments
       ELSE /\ delPc' = [delPc EXCEPT ![d] = "completed"]
            /\ sDocuments' = sDocuments \ {d}
    /\ UNCHANGED <<sImpl, sFk, sNextId, sAnalyses, sRecs, bgPc, bgLeft,
                   sStored, restS>>

NextStorage ==
    \/ SeedTemplates
    \/ UploadDocument
    \/ \E d \in DocIds :
          \E citations \in AnalyzerCitations(documentOf(d)) :
              StoreAnalysis(d, citations)
    \/ \E d \in DocIds : StoreRecommendation(d)
    \/ \E d \in DocIds : DeleteRequested(d)
    \/ \E d \in DocIds : MemDeleteDocument(d)
    \/ \E d \in DocIds : DbDeleteAnalyses(d)
    \/ \E d \in DocIds : DbDeleteRecommendations(d)
    \/ \E d \in DocIds : DbDeleteDocument(d)

\* C13: once deleteDocument(id) has completed, no stored analysis and no
\* stored recommendation refers to document id, in MemStorage and in
\* DatabaseStorage, also while the background analysis of the document is
\* still writing.
C13_DeleteCascades ==
    \A d \in DocIds :
        delPc[d] = "completed" => sAnalyses[d] = 0 /\ sRecs[d] = 0

\* The claim's wording for a citation that names no source.
NoSourceAvailable == <<"No source available">>

\* C14: every recommendation ever stored carries a citation that names the
\* document it was derived from or says that no source is available, and
\* one without a backing document never cites a named source.
C14_CitationsBacked ==
    \A r \in sStored :
        IF r.sourceDocumentId = NoDocument
        THEN r.citation = NoSourceAvailable
        ELSE \/ r.citation = NoSourceAvailable
             \/ r.citation[1] = documentOf(r.sourceDocumentId).originalName

(***************************************************************************)
(* Specifications                                                          *)
(***************************************************************************)

(***************************************************************************)
(* The reply parser over replies whose sections are long.  The k-th item   *)
(* of a section is written ToString(k): characters that are neither        *)
(* letters nor white space.                                                *)
(***************************************************************************)
\* "\n- 1\n- 2 ... \n- n"
RECURSIVE BulletItems(_)
BulletItems(n) ==
    IF n = 0 THEN <<>>
    ELSE BulletItems(n - 1) \o <<"nl", "-", "sp", ToString(n)>>

\* "\nSTORMWATER: w - 1 ... \nSTORMWATER: w - m"
RECURSIVE MarkedLines(_)
MarkedLines(m) ==
    IF m = 0 THEN <<>>
    ELSE MarkedLines(m - 1)
             \o <<"nl", "STORMWATER:", "sp", "w", "sp", "-", "sp", ToString(m)>>

\* a reply in the format the prompts ask for
SectionedReply(n, m) ==
    <<"ANALYSIS:", "sp", "w", "nl", "nl", "INSIGHTS:">> \o BulletItems(n)
        \o <<"nl", "nl", "RECOMMENDATIONS:">> \o MarkedLines(m)

SectionedReplies ==
    {SectionedReply(n, m) : n \in 0..MaxBullets, m \in 0..MaxLines}

\* replies without an INSIGHTS section
UnsectionedReplies == {<<>>, <<"w", "sp", "w">>, <<"ANALYSIS:", "sp", "w">>}

\* replies whose INSIGHTS section has any body of bullets, words and white
\* space
InsightReplies ==
    {<<"INSIGHTS:">> \o body : body \in SeqsUpTo({"-", "sp", "w", "nl"}, MaxBody)}

\* replies in which a line with a word and a colon follows the ANALYSIS
\* section, on the next line or after an empty line
HeaderReplies ==
    {<<"ANALYSIS:", "sp", "w">> \o gap \o <<header, "sp", "w">> :
        gap \in {<<"nl">>, <<"nl", "nl">>},
        header \in LowerCaseHeaders \cup {"QSD:", "INSIGHTS:"}}

ParserTexts ==
    SectionedReplies \cup UnsectionedReplies \cup InsightReplies
        \cup HeaderReplies

InitParserIdle ==
    /\ xText = <<>>
    /\ xDoc = [originalName |-> "plan.pdf", content |-> "plain"]
    /\ xResult = NoReturn

InitParser ==
    /\ xText \in ParserTexts
    /\ xDoc \in Docs
    /\ xResult = NoReturn

\* The model replied: return this.parseAnalysisResponse(analysisText, document)
ParseReply ==
    /\ xResult = NoReturn
    /\ xResult' = [kind |-> "returned", by |-> "parseAnalysisResponse",
                   value |-> parseAnalysisResponse(xText, xDoc)]
    /\ UNCHANGED <<xText, xDoc, restX>>

\* The model call failed: return this.generateFallbackAnalysis(document, query)
FallBack(query) ==
    /\ xResult = NoReturn
    /\ xResult' = [kind |-> "returned", by |-> "generateFallbackAnalysis",
                   value |-> generateFallbackAnalysis(xDoc, query)]
    /\ UNCHANGED <<xText, xDoc, restX>>

NextParser ==
    \/ ParseReply
    \/ \E query \in Queries : FallBack(query)

(***************************************************************************)
(* Claims about the reply parser                                           *)
(***************************************************************************)
\* C15: every AnalysisResult the analyzer returns, parsed from a reply or
\* the fallback, has at most 5 insights and at most 10 recommendations.
C15_ResultCapped ==
    xResult.kind = "returned" =>
        /\ Len(xResult.value.insights) <= MaxInsights
        /\ Len(xResult.value.recommendations) <= MaxRecommendations

\* A reply with 6 bullet items and 11 marked lines has been parsed: the
\* result holds the first 5 and the first 10 of them.
C15_Witness ==
    /\ xText = SectionedReply(MaxInsights + 1, MaxRecommendations + 1)
    /\ xResult.kind = "returned"
    /\ xResult.value.insights = [k \in 1..MaxInsights |-> <<ToString(k)>>]
    /\ Len(xResult.value.recommendations) = MaxRecommendations
    /\ xResult.value.recommendations[MaxRecommendations].content
           = <<ToString(MaxRecommendations)>>


Parsed == xResult.kind = "returned" /\ xResult.by = "parseAnalysisResponse"

HasBullet(s) == \E i \in 1..Len(s) : IsBullet(s[i])

\* the characters of s that are neither white space nor bullet markers
Ink(s) == SelectSeq(s, LAMBDA t : ~IsSpace(t) /\ ~IsBullet(t))

RECURSIVE InkOfAll(_)
InkOfAll(items) ==
    IF items = <<>> THEN <<>> ELSE Ink(Head(items)) \o InkOfAll(Tail(items))

IsPrefix(s, t) == Len(s) <= Len(t) /\ s = SubSeq(t, 1, Len(s))

\* items are trimmed, non-empty pieces of body that hold no bullet marker,
\* in the order of body, and all of them or the first five
PiecesOf(items, body) ==
    /\ Len(items) <= MaxInsights
    /\ \A k \in 1..Len(items) :
          /\ items[k] # <<>>
          /\ Trim(items[k]) = items[k]
          /\ ~HasBullet(items[k])
          /\ \E i \in 1..Len(body) :
                items[k] = SubSeq(body, i, i + Len(items[k]) - 1)
    /\ IF Len(items) < MaxInsights THEN InkOfAll(items) = Ink(body)
       ELSE IsPrefix(InkOfAll(items), Ink(body))

UpperCaseEnd(text, start) ==
    Min({p \in start..(Len(text) + 1) :
            \/ p = Len(text) + 1
            \/ /\ p + 2 <= Len(text)
               /\ text[p] = "nl"
               /\ text[p + 1] = "nl"
               /\ IsUpperCaseColon(text[p + 2])})

\* C20: the content of a section runs from its label to the next header
\* line, a line after an empty one that is an upper-case word followed by
\* a colon, or to the end of the text; a line whose leading word is
\* lower-case or mixed-case followed by a colon does not end the section.
C20_EndsAtUpperCaseHeader ==
    (Parsed /\ \E i \in 1..Len(xText) : xText[i] = "ANALYSIS:") =>
        LET label == Min({i \in 1..Len(xText) : xText[i] = "ANALYSIS:"})
            start == SkipSpace(xText, label + 1)
            content == Trim(SubSeq(xText, start, UpperCaseEnd(xText, start) - 1))
        IN  content # <<>> => xResult.value.analysis = content

(***************************************************************************)
(* The prompt assemblers.  A document is its originalName and its content; *)
(* a content is whose it is and how many characters it has, and so is      *)
(* an excerpt of it.  The document part of a prompt is the sequence of its *)
(* blocks: the tag written before the excerpt, the excerpt, and what is    *)
(* written right after it.                                                 *)
(***************************************************************************)
Lengths == {0, 49, 50, 51, 100, 101, 800, 801, 1500, 1501}

Document(k, n) == [originalName |-> k, content |-> [of |-> k, length |-> n]]

Libraries ==
    UNION {{[k \in 1..n |-> Document(k, f[k])] : f \in [1..n -> Lengths]} :
             n \in 0..MaxLibrary}

\* String.prototype.substring(0, n)
substring(content, n) ==
    [of |-> content.of,
     length |-> IF content.length < n THEN content.length ELSE n]

MinContentLength == 50

ReferenceCap == 1500

ReportCap == 800

SearchCap == 100

SearchDocuments == 5

IsSubstantialFrom50(doc) == doc.content.length >= MinContentLength

\* doc => doc.content && doc.content.length > 50
IsSubstantial(doc) == doc.content.length > MinContentLength

\* Array.prototype.sort with the comparator b.content.length -
\* a.content.length: a stable sort.
RECURSIVE SortByLength(_)
SortByLength(docs) ==
    IF docs = <<>> THEN <<>>
    ELSE LET front == SortByLength(SubSeq(docs, 1, Len(docs) - 1))
             last == docs[Len(docs)]
             k == Cardinality({j \in 1..Len(front) :
                     front[j].content.length >= last.content.length})
         IN  SubSeq(front, 1, k) \o <<last>> \o SubSeq(front, k + 1, Len(front))

referenceDocs(allDocuments) ==
    SortByLength(SelectSeq(allDocuments, IsSubstantial))

\* AIAnalyzer.buildReferenceContext; without a block it returns "No
\* reference documents available in the library."
buildReferenceContext(allDocuments) ==
    LET docs == referenceDocs(allDocuments)
    IN  [k \in 1..Len(docs) |->
            [tag |-> <<"REFERENCE:", docs[k].originalName>>,
             excerpt |-> substring(docs[k].content, ReferenceCap),
             marker |-> IF docs[k].content.length > ReferenceCap
                        THEN "...[FULL DOCUMENT AVAILABLE]" ELSE ""]]

\* documentContext of DocumentGenerator.generateComprehensiveReport
documentContext(sourceDocuments) ==
    [k \in 1..Len(sourceDocuments) |->
        [tag |-> <<"DOC-", k>>,
         excerpt |-> substring(sourceDocuments[k].content, ReportCap),
         marker |-> IF sourceDocuments[k].content.length > ReportCap
                    THEN "..." ELSE ""]]

\* **Key Documents (Top 5):** of /api/search/claude4
keyDocuments(documents) ==
    LET top == Slice(documents, SearchDocuments)
    IN  [k \in 1..Len(top) |->
            [tag |-> <<"-", top[k].originalName>>,
             excerpt |-> substring(top[k].content, SearchCap),
             marker |-> "..."]]

InitContextIdle ==
    /\ cLibrary = <<>>
    /\ cPrompts = <<>>

InitContext ==
    /\ cLibrary \in Libraries
    /\ cPrompts = <<>>

AnalyzerAssembles ==
    /\ Len(cPrompts) < MaxPrompts
    /\ cPrompts' = Append(cPrompts, [site |-> "buildReferenceContext",
                                     blocks |-> buildReferenceContext(cLibrary)])
    /\ UNCHANGED <<cLibrary, restC>>

GeneratorAssembles ==
    /\ Len(cPrompts) < MaxPrompts
    /\ cPrompts' = Append(cPrompts, [site |-> "generateComprehensiveReport",
                                     blocks |-> documentContext(cLibrary)])
    /\ UNCHANGED <<cLibrary, restC>>

SearchAssembles ==
    /\ Len(cPrompts) < MaxPrompts
    /\ cLibrary # <<>>
    /\ cPrompts' = Append(cPrompts, [site |-> "/api/search/claude4",
                                     blocks |-> keyDocuments(cLibrary)])
    /\ UNCHANGED <<cLibrary, restC>>

NextContext ==
    \/ AnalyzerAssembles
    \/ GeneratorAssembles
    \/ SearchAssembles

(***************************************************************************)
(* Claims about the prompt assemblers                                      *)
(***************************************************************************)
Assembled == {cPrompts[i] : i \in 1..Len(cPrompts)}

\* C16: for a library whose filtered and sorted list has N documents, the
\* prompt holds the tags [DOC-1] to [DOC-N], the tag [DOC-k] stands right
\* before the excerpt of the k-th document of that list, and a prompt
\* assembled again from the same list has the same tags on the same
\* excerpts.
C16_TagsInListOrder ==
    LET list == referenceDocs(cLibrary)
    IN  /\ \A prompt \in Assembled :
              prompt.site \in {"buildReferenceContext",
                               "generateComprehensiveReport"} =>
                  /\ Len(prompt.blocks) = Len(list)
                  /\ \A k \in 1..Len(list) :
                        /\ prompt.blocks[k].tag = <<"DOC-", k>>
                        /\ prompt.blocks[k].excerpt.of = list[k].originalName
        /\ \A p, q \in Assembled : p.site = q.site => p.blocks = q.blocks

\* The cap on the excerpt at the site of a prompt.
CapOf(site) ==
    CASE site = "buildReferenceContext" -> ReferenceCap
      [] site = "generateComprehensiveReport" -> ReportCap
      [] site = "/api/search/claude4" -> SearchCap

ContentOf(k) == cLibrary[k].content

\* C17: in every assembled prompt, the excerpt of a document ends with the
\* truncation marker if and only if the content of the document is longer
\* than the excerpt cap of the call site.
C17_MarkerIffLonger ==
    \A prompt \in Assembled :
        \A b \in 1..Len(prompt.blocks) :
            LET block == prompt.blocks[b]
            IN  block.marker # ""
                    <=> ContentOf(block.excerpt.of).length > CapOf(prompt.site)

Included(prompt) ==
    {prompt.blocks[b].excerpt.of : b \in 1..Len(prompt.blocks)}

\* C18, as stated: a reference document is left out of the assembled
\* context if and only if its content is shorter than 50 characters; a
\* document of exactly 50 characters is included.
C18_LeftOutBelow50 ==
    \A prompt \in Assembled :
        prompt.site = "buildReferenceContext" =>
            \A k \in 1..Len(cLibrary) :
                k \notin Included(prompt)
                    <=> ContentOf(k).length < MinContentLength

\* C18, amended: a reference document is left out of the assembled context
\* if and only if its content is not longer than 50 characters; a document
\* of exactly 50 characters is left out.
C18_LeftOutUpTo50 ==
    \A prompt \in Assembled :
        prompt.site = "buildReferenceContext" =>
            \A k \in 1..Len(cLibrary) :
                k \notin Included(prompt)
                    <=> ContentOf(k).length <= MinContentLength

\* The context has been built from documents of 50, 51 and 49 characters:
\* it holds the second of them only.
C18_Witness ==
    /\ cLibrary = <<Document(1, 50), Document(2, 51), Document(3, 49)>>
    /\ \E prompt \in Assembled :
          /\ prompt.site = "buildReferenceContext"
          /\ Included(prompt) = {2}


(***************************************************************************)
(* POST /api/search/claude4.  One request is in flight at a time; the      *)
(* clock counts minutes.  A query and a mode are texts of tokens, so that  *)
(* the cache key is the text the template literal builds.                  *)
(***************************************************************************)
SearchQueries == {<<"q">>}

SearchModes == {<<"m">>}

SearchRequests ==
    [query : SearchQueries, mode : SearchModes, includeContext : BOOLEAN]

\* `${query}-${mode}-${includeContext}`
cacheKey(req) ==
    req.query \o <<"-">> \o req.mode \o <<"-">>
        \o <<IF req.includeContext THEN "true" ELSE "false">>

CacheKeys == {cacheKey(req) : req \in SearchRequests}

CACHE_TTL == 3

NotCached == [result |-> [insights |-> "none", found |-> FALSE], timestamp |-> -1]

\* the texts aiAnalyzer.generateDocument resolves with
GeneratedInsights == {"reply1", "reply2"}

cacheHitAnyAge(key) == qCache[key] # NotCached

\* cached && (Date.now() - cached.timestamp) < CACHE_TTL
cacheHit(key) ==
    /\ qCache[key] # NotCached
    /\ qNow - qCache[key].timestamp < CACHE_TTL

NoSearch == [query |-> <<>>, mode |-> <<>>, includeContext |-> FALSE]

InitSearch ==
    /\ qNow = 0
    /\ qCache = [key \in CacheKeys |-> NotCached]
    /\ qPc = "idle"
    /\ qReq = NoSearch
    /\ qReceived = 0
    /\ qFound = FALSE
    /\ qLog = <<>>

\* res.json(...): what the log keeps of the answered request
Answered(from, modelCalls, result) ==
    [req |-> qReq, key |-> cacheKey(qReq), from |-> from,
     modelCalls |-> modelCalls, result |-> result,
     received |-> qReceived, at |-> qNow]

\* The handler up to its first await: the cache is looked up; a hit is the
\* response.
SearchReceived(req) ==
    /\ qPc = "idle"
    /\ Len(qLog) < MaxSearches
    /\ IF cacheHit(cacheKey(req))
       THEN /\ qLog' = Append(qLog,
                    [req |-> req, key |-> cacheKey(req), from |-> "cache",
                     modelCalls |-> 0, result |-> qCache[cacheKey(req)].result,
                     received |-> qNow, at |-> qNow])
            /\ UNCHANGED <<qPc, qReq, qReceived>>
       ELSE /\ qPc' = "globalSearch"
            /\ qReq' = req
            /\ qReceived' = qNow
            /\ UNCHANGED qLog
    /\ UNCHANGED <<qNow, qCache, qFound, restQ>>

\* claude4Cache.set(cacheKey, { result, timestamp: Date.now() }); res.json(result)
Respond(modelCalls, result) ==
    /\ qCache' = [qCache EXCEPT ![cacheKey(qReq)] =
                     [result |-> result, timestamp |-> qNow]]
    /\ qLog' = Append(qLog, Answered("handler", modelCalls, result))
    /\ qPc' = "idle"
    /\ qReq' = NoSearch

\* storage.globalSearch resolves: without context or without documents the
\* insights are the fixed text and the request is answered; else
\* generateDocument is called and raced against the 8 s timer.
GlobalSearchResolves(found) ==
    /\ qPc = "globalSearch"
    /\ IF qReq.includeContext /\ found
       THEN /\ qPc' = "race"
            /\ qFound' = found
            /\ UNCHANGED <<qCache, qLog, qReq>>
       ELSE /\ Respond(0, [insights |-> "searchCompleted", found |-> found])
            /\ qFound' = FALSE
    /\ UNCHANGED <<qNow, qReceived, restQ>>

\* storage.globalSearch rejects: the outer catch answers 500, nothing is
\* cached.
GlobalSearchRejects ==
    /\ qPc = "globalSearch"
    /\ qLog' = Append(qLog, Answered("handler", 0,
                               [insights |-> "unavailable", found |-> FALSE]))
    /\ qPc' = "idle"
    /\ qReq' = NoSearch
    /\ UNCHANGED <<qNow, qCache, qReceived, qFound, restQ>>

\* Promise.race settles: generateDocument resolved first, or the timer
\* rejected first and the catch wrote the fixed assessment.
RaceSettles(insights) ==
    /\ qPc = "race"
    /\ Respond(1, [insights |-> insights, found |-> qFound])
    /\ qFound' = FALSE
    /\ UNCHANGED <<qNow, qReceived, restQ>>

Minute ==
    /\ qNow < MaxMinutes
    /\ qNow' = qNow + 1
    /\ UNCHANGED <<qCache, qPc, qReq, qReceived, qFound, qLog, restQ>>

NextSearch ==
    \/ \E req \in SearchRequests : SearchReceived(req)
    \/ \E found \in BOOLEAN : GlobalSearchResolves(found)
    \/ GlobalSearchRejects
    \/ \E insights \in GeneratedInsights \cup {"timeoutAssessment"} :
          RaceSettles(insights)
    \/ Minute

Recent(j) ==
    {i \in 1..(j - 1) :
        /\ qLog[i].key = qLog[j].key
        /\ qLog[i].from = "handler"
        /\ qLog[i].result.insights # "unavailable"
        /\ qLog[j].received - qLog[i].at < CACHE_TTL}

corePlugins ==
    <<"stormwater-analysis", "chat-service", "document-generator",
      "regulatory-compliance", "cost-estimation", "site-planning",
      "risk-assessment", "training-certification",
      "environmental-monitoring">>

CoreIds == {corePlugins[k] : k \in 1..Len(corePlugins)}

InitCalls == 1..NumInits

pluginName(id) ==
    CASE id = "stormwater-analysis" -> "Stormwater Analysis AI"
      [] id = "chat-service" -> "AI Chat Service"
      [] id = "document-generator" -> "Document Generator AI"
      [] id = "regulatory-compliance" -> "Regulatory Compliance AI"
      [] id = "cost-estimation" -> "Cost Estimation AI"
      [] id = "site-planning" -> "Site Planning AI"
      [] id = "risk-assessment" -> "Risk Assessment AI"
      [] id = "training-certification" -> "Training & Certification AI"
      [] id = "environmental-monitoring" -> "Environmental Monitoring AI"

declaredMemory(id) ==
    CASE id = "stormwater-analysis" -> 512
      [] id = "chat-service" -> 256
      [] id = "document-generator" -> 384
      [] id = "regulatory-compliance" -> 180
      [] id = "cost-estimation" -> 160
      [] id = "site-planning" -> 200
      [] id = "risk-assessment" -> 175
      [] id = "training-certification" -> 140
      [] id = "environmental-monitoring" -> 190

declaredCpu(id) ==
    CASE id = "stormwater-analysis" -> 25
      [] id = "chat-service" -> 15
      [] id = "document-generator" -> 20
      [] id = "regulatory-compliance" -> 15
      [] id = "cost-estimation" -> 12
      [] id = "site-planning" -> 18
      [] id = "risk-assessment" -> 14
      [] id = "training-certification" -> 10
      [] id = "environmental-monitoring" -> 16

\* the plugins whose getResourceUsage gives cpu: this.isRunning ?
\* this.cpuUsage : 0
CpuWhileRunning ==
    {"stormwater-analysis", "chat-service", "document-generator"}

getActivePlugins ==
    {"Stormwater Analysis AI", "Chat Service AI", "Document Generator AI",
     "Regulatory Compliance AI", "Cost Estimation AI", "Site Planning AI",
     "Risk Assessment AI", "Training & Certification AI",
     "Environmental Monitoring AI"}

\* plugin.getResourceUsage().cpu of an instance
usedCpu(inst) ==
    IF inst.id \in CpuWhileRunning /\ inst \notin gRunning THEN 0
    ELSE declaredCpu(inst.id)

RECURSIVE reduceCpu(_)
reduceCpu(insts) ==
    IF insts = <<>> THEN 0 ELSE usedCpu(Head(insts)) + reduceCpu(Tail(insts))

RECURSIVE reduceMemory(_)
reduceMemory(insts) ==
    IF insts = <<>> THEN 0
    ELSE declaredMemory(Head(insts).id) + reduceMemory(Tail(insts))

\* PluginManager.canLoadPlugin over the Map of the registry's manager
canLoad(id) ==
    /\ reduceMemory(gPlugins) + declaredMemory(id) <= MaxMemoryUsage
    /\ reduceCpu(gPlugins) + declaredCpu(id) <= MaxCpuUsage

HeldIds == {gPlugins[k].id : k \in 1..Len(gPlugins)}

\* this.plugins.set(plugin.id, plugin): a key that is there keeps its place
MapSet(insts, inst) ==
    IF \E k \in 1..Len(insts) : insts[k].id = inst.id
    THEN [k \in 1..Len(insts) |->
             IF insts[k].id = inst.id THEN inst ELSE insts[k]]
    ELSE Append(insts, inst)

NoCount == [constructed |-> 0, initialized |-> 0, registered |-> 0]

IdleInit == [pc |-> "idle", k |-> 0]

IdleShutdown == [pc |-> "idle", list |-> <<>>]

InitRegistry ==
    /\ gInitialized = FALSE
    /\ gPlugins = <<>>
    /\ gRunning = {}
    /\ gCalls = [c \in InitCalls |-> IdleInit]
    /\ gShutdown = IdleShutdown
    /\ gCount = [id \in CoreIds |-> NoCount]

\* initializeAllPlugins up to its first await: the test of isInitialized
\* and the construction of the nine plugins.  Calls are taken while no
\* shutdownAllPlugins is under way, and the other way round.
InitializeCalled(c) ==
    /\ gCalls[c].pc \in {"idle", "done"}
    /\ gShutdown.pc = "idle"
    /\ IF gInitialized
       THEN /\ gCalls' = [gCalls EXCEPT ![c] = [pc |-> "done", k |-> 0]]
            /\ UNCHANGED gCount
       ELSE /\ gCalls' = [gCalls EXCEPT ![c] = [pc |-> "register", k |-> 1]]
            /\ gCount' = [id \in CoreIds |->
                             [gCount[id] EXCEPT !.constructed = @ + 1]]
    /\ UNCHANGED <<gInitialized, gPlugins, gRunning, gShutdown, restG>>

\* what follows the registerPlugin of the k-th plugin: the next one, or
\* this.isInitialized = true
AfterRegister(c) ==
    IF gCalls[c].k < Len(corePlugins)
    THEN /\ gCalls' = [gCalls EXCEPT ![c] = [pc |-> "register", k |-> @.k + 1]]
         /\ UNCHANGED gInitialized
    ELSE /\ gCalls' = [gCalls EXCEPT ![c] = [pc |-> "done", k |-> 0]]
         /\ gInitialized' = TRUE

\* registerPlugin up to its await: canLoadPlugin and, if it holds, the
\* synchronous body of plugin.initialize(); if not, false is returned.
RegistryRegisters(c) ==
    /\ gCalls[c].pc = "register"
    /\ LET id == corePlugins[gCalls[c].k]
       IN  IF canLoad(id)
           THEN /\ gRunning' = gRunning \cup {[id |-> id, by |-> c]}
                /\ gCount' = [gCount EXCEPT ![id].initialized = @ + 1]
                /\ gCalls' = [gCalls EXCEPT ![c].pc = "initialize"]
                /\ UNCHANGED gInitialized
           ELSE /\ AfterRegister(c)
                /\ UNCHANGED <<gRunning, gCount>>
    /\ UNCHANGED <<gPlugins, gShutdown, restG>>

\* registerPlugin after its await: this.plugins.set(plugin.id, plugin).
\* An instance the Map held under the id is no longer referenced.
RegistryRegistered(c) ==
    /\ gCalls[c].pc = "initialize"
    /\ LET id == corePlugins[gCalls[c].k]
       IN  /\ gPlugins' = MapSet(gPlugins, [id |-> id, by |-> c])
           /\ gCount' = [gCount EXCEPT ![id].registered = @ + 1]
           /\ gRunning' = {inst \in gRunning :
                               \/ inst.id # id
                               \/ inst.by = c
                               \/ gCalls[inst.by].pc = "initialize"
                                    /\ corePlugins[gCalls[inst.by].k] = id}
    /\ AfterRegister(c)
    /\ UNCHANGED <<gShutdown, restG>>

\* what follows the unregisterPlugin of the head of the list: the next
\* one, or this.isInitialized = false
AfterUnregister ==
    IF Len(gShutdown.list) > 1
    THEN /\ gShutdown' = [pc |-> "unregister", list |-> Tail(gShutdown.list)]
         /\ UNCHANGED <<gInitialized, gCount>>
    ELSE /\ gShutdown' = IdleShutdown
         /\ gInitialized' = FALSE
         /\ gCount' = [id \in CoreIds |-> NoCount]

\* shutdownAllPlugins up to its first await: the test of isInitialized and
\* pluginManager.listPlugins().
ShutdownCalled ==
    /\ gShutdown.pc = "idle"
    /\ \A c \in InitCalls : gCalls[c].pc \in {"idle", "done"}
    /\ gInitialized
    /\ IF gPlugins = <<>>
       THEN /\ gInitialized' = FALSE
            /\ gCount' = [id \in CoreIds |-> NoCount]
            /\ UNCHANGED gShutdown
       ELSE /\ gShutdown' = [pc |-> "unregister",
                             list |-> [k \in 1..Len(gPlugins) |-> gPlugins[k].id]]
            /\ UNCHANGED <<gInitialized, gCount>>
    /\ UNCHANGED <<gPlugins, gRunning, gCalls, restG>>

\* unregisterPlugin up to its await: the synchronous body of
\* plugin.shutdown() of the instance the Map holds; false without one.
RegistryUnregisters ==
    /\ gShutdown.pc = "unregister"
    /\ LET id == Head(gShutdown.list)
       IN  IF id \in HeldIds
           THEN /\ gRunning' = gRunning \ {inst \in gRunning :
                                    \E k \in 1..Len(gPlugins) : gPlugins[k] = inst
                                                                /\ inst.id = id}
                /\ gShutdown' = [gShutdown EXCEPT !.pc = "shutdown"]
                /\ UNCHANGED <<gInitialized, gCount>>
           ELSE /\ AfterUnregister
                /\ UNCHANGED gRunning
    /\ UNCHANGED <<gPlugins, gCalls, restG>>

\* unregisterPlugin after its await: this.plugins.delete(pluginId)
RegistryUnregistered ==
    /\ gShutdown.pc = "shutdown"
    /\ gPlugins' = SelectSeq(gPlugins, LAMBDA inst : inst.id # Head(gShutdown.list))
    /\ AfterUnregister
    /\ UNCHANGED <<gRunning, gCalls, restG>>

NextRegistry ==
    \/ \E c \in InitCalls : InitializeCalled(c)
    \/ \E c \in InitCalls : RegistryRegisters(c)
    \/ \E c \in InitCalls : RegistryRegistered(c)
    \/ ShutdownCalled
    \/ RegistryUnregisters
    \/ RegistryUnregistered

(***************************************************************************)
(* Claims about the plugin registry                                        *)
(***************************************************************************)
\* initializeAllPlugins has completed and no call of it or of
\* shutdownAllPlugins is under way
RegistrySettled ==
    /\ gInitialized
    /\ \A c \in InitCalls : gCalls[c].pc \in {"idle", "done"}
    /\ gShutdown.pc = "idle"

\* C22: after initializeAllPlugins has completed on a fresh plugin
\* manager, all nine plugins are registered and active, and the names of
\* the manager's plugins are the nine names getActivePlugins returns.
C22_AllNineRegistered ==
    RegistrySettled =>
        /\ HeldIds = CoreIds
        /\ \A k \in 1..Len(gPlugins) : gPlugins[k] \in gRunning
        /\ {pluginName(id) : id \in HeldIds} = getActivePlugins

\* C29: between one initialization of the registry and the next
\* shutdown, each plugin is constructed, initialized and registered at
\* most once, however many times initializeAllPlugins is called and also
\* when calls overlap.
C29_AtMostOnce ==
    \A id \in CoreIds :
        /\ gCount[id].constructed <= 1
        /\ gCount[id].initialized <= 1
        /\ gCount[id].registered <= 1

RECURSIVE DeclaredCpu(_)
DeclaredCpu(S) ==
    IF S = {} THEN 0
    ELSE LET p == CHOOSE q \in S : TRUE
         IN  cpuUsage(p) + DeclaredCpu(S \ {p})

RECURSIVE DeclaredMemory(_)
DeclaredMemory(S) ==
    IF S = {} THEN 0
    ELSE LET p == CHOOSE q \in S : TRUE
         IN  memoryUsage(p) + DeclaredMemory(S \ {p})

\* C25: at every moment, whatever the interleaving of registerPlugin,
\* unregisterPlugin and the restarts of the health sweep, the plugins held
\* in the manager's Map declare together at most maxCpuUsage (80) percent
\* of cpu and at most maxMemoryUsage (4096) MB of memory.
C25_WithinLimits ==
    /\ DeclaredCpu(Registered) <= MaxCpuUsage
    /\ DeclaredMemory(Registered) <= MaxMemoryUsage

\* The active registered plugins that can handle the request and are not
\* in error state.
CapableNotInError(request) ==
    {p \in Registered : /\ pActive[p]
                        /\ canHandle(p, request)
                        /\ getStatus(p).health # "error"}

\* C28: a dispatch fails with 'plugin is in error state' only when every
\* registered handler that can handle the request is in error state: while
\* a capable handler is healthy or degraded, it is such a handler that is
\* selected, never one in error state.
C28_ErrorOnlyWhenAllInError ==
    [][(pCall.status = "idle" /\ pCall'.status # "idle"
            /\ CapableNotInError(pCall'.request) # {})
        => /\ pCall'.outcome # "errorState"
           /\ pCall'.invoked \in CapableNotInError(pCall'.request)]_vars

\* C27: a registered plugin whose health became 'error' because a request
\* failed is eventually brought back to a health other than 'error' by the
\* periodic sweep (or is no longer registered).
C27_ErrorEventuallyCleared ==
    \A p \in PluginIds :
        (p \in Registered /\ getStatus(p).health = "error")
            ~> (p \notin Registered \/ getStatus(p).health # "error")

\* What belongs to invocation j: its place in executeStormwaterAnalysis,
\* its process, timer and promise, its result and its files.
InvocationState(j) ==
    <<rPc[j], rSession[j], rProc[j], rKill[j], rTimer[j], rSettled[j],
      rResult[j], [p \in PathsOf(rSession[j]) |-> fs[p]]>>

\* The step is the event that settles the promise of invocation i as
\* `settled` says: the exit of its process, the failure of its spawn, or
\* its timer.
IsEventOf(i, settled) ==
    CASE settled.how = "close" ->
             /\ rProc[i] = "running"
             /\ rProc'[i] = IF settled.code = 0 THEN "exited0"
                            ELSE "exitedNonZero"
      [] settled.how = "error" ->
             rProc[i] = "spawnFailing" /\ rProc'[i] = "failed"
      [] settled.how = "timeout" ->
             rTimer[i] = "armed" /\ rTimer'[i] = "fired"

\* C26: each invocation of the runner yields exactly one result, fixed by
\* whichever of the exit of the process, the spawn error and the 30 s timer
\* happens first; a later event changes neither that result nor anything of
\* another invocation.
C26_FirstEventFixesResult ==
    [][\A i \in Runs :
          /\ rSettled[i] # NotSettled => rSettled'[i] = rSettled[i]
          /\ (rSettled[i] = NotSettled /\ rSettled'[i] # NotSettled)
                 => IsEventOf(i, rSettled'[i])
          /\ rResult[i] # NoResult => rResult'[i] = rResult[i]
          /\ (rSession[i] # 0 /\ InvocationState(i)' # InvocationState(i))
                 => \A j \in Runs \ {i} :
                        rSession[j] # 0
                            => InvocationState(j)' = InvocationState(j)]_vars

\* The process of invocation 1 has exited and settled the promise, the
\* timer of the invocation has fired afterwards, and invocation 2 is
\* still waiting for its own process.
C26_Witness ==
    /\ rSettled[1].how = "close"
    /\ rTimer[1] = "fired"
    /\ rPc[2] = "awaiting"
    /\ rSettled[2] = NotSettled

(***************************************************************************)
(* One request from canHandle to process.  processRequest selects a plugin *)
(* whose canHandle(request) is true and calls                              *)
(* plugin.process(request.data, ...): the plugin sees request.data, and    *)
(* reads the type of the work from data.type.                              *)
(***************************************************************************)
DispatchPlugins == {"stormwater-analysis", "regulatory-compliance"}

\* supportedTypes of StormwaterAnalysisPlugin.canHandle and handledTypes of
\* RegulatoryCompliancePlugin.canHandle
supportedTypes(plugin) ==
    IF plugin = "stormwater-analysis"
    THEN {"analyze-document", "multi-document-analysis",
          "generate-recommendations", "stormwater-analysis",
          "regulatory-compliance", "qsd-analysis", "cpesc-analysis"}
    ELSE {"regulatory-analysis", "compliance-check", "permit-requirements",
          "inspection-protocols", "violation-assessment"}

\* the branches of process: the if-chain of the stormwater plugin, the
\* switch of the regulatory plugin
processedTypes(plugin) ==
    IF plugin = "stormwater-analysis"
    THEN {"analyze-document", "multi-document-analysis",
          "generate-recommendations"}
    ELSE {"regulatory-analysis", "compliance-check", "permit-requirements",
          "inspection-protocols", "violation-assessment"}

UndefinedType == "undefined"

DispatchTypes ==
    UNION {supportedTypes(plugin) : plugin \in DispatchPlugins} \cup {"other"}

\* request.type is a string; request.data.type may be missing
DispatchRequests ==
    [type : DispatchTypes, dataType : DispatchTypes \cup {UndefinedType}]

pluginCanHandle(plugin, request) ==
    IF plugin = "stormwater-analysis"
    THEN \/ request.type \in supportedTypes(plugin)
         \/ /\ request.dataType # UndefinedType
            /\ request.dataType \in supportedTypes(plugin)
    ELSE request.type \in supportedTypes(plugin)

\* plugin.process(input): input is request.data
process(plugin, input) ==
    IF input.type \in processedTypes(plugin) THEN "result"
    ELSE IF plugin = "stormwater-analysis" THEN "Unsupported request type"
    ELSE "Unknown request type"

InitDispatch ==
    /\ dPlugin = "null"
    /\ dRequest = [type |-> "other", dataType |-> UndefinedType]
    /\ dOutcome = "none"

\* processRequest for a request that `plugin` can handle and for which
\* findBestPlugin returns it
Dispatch(plugin, request) ==
    /\ pluginCanHandle(plugin, request)
    /\ dPlugin' = plugin
    /\ dRequest' = request
    /\ dOutcome' = process(plugin, [type |-> request.dataType])
    /\ UNCHANGED restD

NextDispatch ==
    \E plugin \in DispatchPlugins, request \in DispatchRequests :
        Dispatch(plugin, request)

\* C30: when canHandle(request) of a plugin is true and the request is
\* dispatched to the plugin, process does not reject it as a request of an
\* unknown or unsupported type.
C30_HandledIsProcessed ==
    dOutcome \notin {"Unsupported request type", "Unknown request type"}

(***************************************************************************)
(* The routes that change the reference library: the upload of a file,     *)
(* kept in the library when saveToLibrary is 'true' and analysed without   *)
(* being kept otherwise, and the deletion of a document.                   *)
(***************************************************************************)
\* Authorization header: none, or a token whose admin session is unknown,
\* expired, or authenticated and current
NoToken == "none"
AdminTokens == {NoToken, "unknown", "expired", "valid"}

\* DatabaseStorage.validateAdminToken
validateAdminToken(token) == token = "valid"

\* the middleware requireAdmin, which no route is registered with
requireAdmin(token) == token # NoToken /\ validateAdminToken(token)

\* originalName of the uploaded file, by its kind
FileKinds == {"image", "text"}

UploadRequests ==
    [route : {"upload"}, token : AdminTokens, saveToLibrary : BOOLEAN,
     kind : FileKinds]

DeleteRequests ==
    [route : {"delete"}, token : AdminTokens, id : 1..MaxUploads]

NoRequest == [route |-> "none"]
NoResponse == [route |-> "none", status |-> 0]
Null == "null"

InitRoutes ==
    /\ uLibrary = {}
    /\ uNextId = 1
    /\ uDisk = FALSE
    /\ uPc = "idle"
    /\ uReq = NoRequest
    /\ uResponse = NoResponse

\* multer has stored the file; validateFile finds it
UploadReceived(req) ==
    /\ uPc = "idle"
    /\ req.saveToLibrary => uNextId <= MaxUploads
    /\ uReq' = req
    /\ uDisk' = TRUE
    /\ uPc' = "processDocument"
    /\ UNCHANGED <<uLibrary, uNextId, uResponse, restU>>

\* documentProcessor.processDocument returns: the content is read and the
\* finally block unlinks the file, logging a failure of the unlink
ProcessDocumentReturns(unlinked) ==
    /\ uPc = "processDocument"
    /\ uDisk' = ~unlinked
    /\ uPc' = IF uReq.saveToLibrary THEN "createDocument" ELSE "analyzeDocument"
    /\ UNCHANGED <<uLibrary, uNextId, uReq, uResponse, restU>>

\* storage.createDocument resolves and the response is sent
CreateDocumentResolves ==
    /\ uPc = "createDocument"
    /\ uLibrary' = uLibrary \cup {uNextId}
    /\ uNextId' = uNextId + 1
    /\ uResponse' = [route |-> "upload", status |-> 200,
                     savedToLibrary |-> TRUE,
                     document |-> [id |-> uNextId]]
    /\ uPc' = "idle"
    /\ UNCHANGED <<uDisk, uReq, restU>>

\* aiAnalyzer.analyzeDocument(tempDocument) resolves: for an image, the
\* file is read again for its base64 data, a failing read leaving null
AnalyzeTemporaryResolves ==
    /\ uPc = "analyzeDocument"
    /\ uResponse' =
           [route |-> "upload", status |-> 200, savedToLibrary |-> FALSE,
            document |-> [id |-> 0, kind |-> uReq.kind,
                          imageData |-> IF uReq.kind = "image" /\ uDisk
                                        THEN "base64" ELSE Null]]
    /\ uPc' = "idle"
    /\ UNCHANGED <<uLibrary, uNextId, uDisk, uReq, restU>>

\* aiAnalyzer.analyzeDocument(tempDocument) rejects: the document goes
\* out as it is
AnalyzeTemporaryRejects ==
    /\ uPc = "analyzeDocument"
    /\ uResponse' =
           [route |-> "upload", status |-> 200, savedToLibrary |-> FALSE,
            document |-> [id |-> 0, kind |-> uReq.kind,
                          imageData |-> "undefined"]]
    /\ uPc' = "idle"
    /\ UNCHANGED <<uLibrary, uNextId, uDisk, uReq, restU>>

DeleteReceived(req) ==
    /\ uPc = "idle"
    /\ uReq' = req
    /\ uPc' = "getDocument"
    /\ UNCHANGED <<uLibrary, uNextId, uDisk, uResponse, restU>>

\* storage.getDocument resolves
GetDocumentResolves ==
    /\ uPc = "getDocument"
    /\ IF uReq.id \in uLibrary
       THEN uPc' = "deleteDocument" /\ UNCHANGED uResponse
       ELSE /\ uPc' = "idle"
            /\ uResponse' = [route |-> "delete", status |-> 404]
    /\ UNCHANGED <<uLibrary, uNextId, uDisk, uReq, restU>>

\* storage.deleteDocument resolves
DeleteDocumentResolves ==
    /\ uPc = "deleteDocument"
    /\ uLibrary' = uLibrary \ {uReq.id}
    /\ uResponse' = [route |-> "delete", status |-> 200, success |-> TRUE]
    /\ uPc' = "idle"
    /\ UNCHANGED <<uNextId, uDisk, uReq, restU>>

NextRoutes ==
    \/ \E req \in UploadRequests : UploadReceived(req)
    \/ \E unlinked \in BOOLEAN : ProcessDocumentReturns(unlinked)
    \/ CreateDocumentResolves
    \/ AnalyzeTemporaryResolves
    \/ AnalyzeTemporaryRejects
    \/ \E req \in DeleteRequests : DeleteReceived(req)
    \/ GetDocumentResolves
    \/ DeleteDocumentResolves

\* C23: a document is added to the permanent reference library, or deleted
\* from it, only by a request that carries an admin session token for
\* which validateAdminToken returns true.
C23_LibraryChangesNeedAdmin ==
    [][uLibrary' # uLibrary
          => uReq.token # NoToken /\ validateAdminToken(uReq.token)]_vars

\* C24: the response to a temporary (not saved) upload of an image file
\* has a document that carries the base64 data of the image, read from the
\* uploaded file.
C24_TemporaryImageCarriesData ==
    (/\ uResponse.route = "upload"
     /\ ~uResponse.savedToLibrary
     /\ uResponse.document.kind = "image")
        => uResponse.document.imageData = "base64"

InitA == InitAnalyzer /\ InitRunner /\ InitPlugins /\ InitStorageIdle
           /\ InitParserIdle /\ InitContextIdle /\ InitSearch
    /\ InitRegistry
    /\ InitDispatch
    /\ InitRoutes

InitR == hasApiKey = FALSE /\ AnalyzerIdle /\ InitRunner /\ InitPlugins /\ InitStorageIdle
           /\ InitParserIdle /\ InitContextIdle /\ InitSearch
    /\ InitRegistry
    /\ InitDispatch
    /\ InitRoutes

InitP == hasApiKey = FALSE /\ AnalyzerIdle /\ InitRunner /\ InitPlugins /\ InitStorageIdle
           /\ InitParserIdle /\ InitContextIdle /\ InitSearch
    /\ InitRegistry
    /\ InitDispatch
    /\ InitRoutes

SpecAnalyzer == InitA /\ [][NextAnalyzer]_vars

SpecRunner == InitR /\ [][NextRunner]_vars

SpecOverlap == InitR /\ [][NextOverlap]_vars

SpecSettle == InitR /\ [][NextSettle]_vars

SpecPlugins == InitP /\ [][NextPlugins]_vars

\* The interval timer of startResourceMonitoring keeps firing, and the
\* awaited initialize() and shutdown() of a plugin, whose bodies are
\* synchronous, resolve.
SpecPluginsFair ==
    /\ SpecPlugins
    /\ WF_vars(checkPluginHealth)
    /\ \A p \in PluginIds : /\ WF_vars(RestartCompletes(p))
                            /\ WF_vars(RegisterCompletes(p))
                            /\ WF_vars(UnregisterCompletes(p))

InitS ==
    /\ hasApiKey = FALSE /\ AnalyzerIdle /\ InitRunner /\ InitPlugins
    /\ InitStorage /\ InitParserIdle /\ InitContextIdle /\ InitSearch
    /\ InitRegistry
    /\ InitDispatch
    /\ InitRoutes

SpecStorage == InitS /\ [][NextStorage]_vars

InitX ==
    /\ hasApiKey = FALSE /\ AnalyzerIdle /\ InitRunner /\ InitPlugins
    /\ InitStorageIdle /\ InitParser /\ InitContextIdle /\ InitSearch
    /\ InitRegistry
    /\ InitDispatch
    /\ InitRoutes

SpecParser == InitX /\ [][NextParser]_vars

InitC ==
    /\ hasApiKey = FALSE /\ AnalyzerIdle /\ InitRunner /\ InitPlugins
    /\ InitStorageIdle /\ InitParserIdle /\ InitContext /\ InitSearch
    /\ InitRegistry
    /\ InitDispatch
    /\ InitRoutes

SpecContext == InitC /\ [][NextContext]_vars

InitQ ==
    /\ hasApiKey = FALSE /\ AnalyzerIdle /\ InitRunner /\ InitPlugins
    /\ InitStorageIdle /\ InitParserIdle /\ InitContextIdle /\ InitSearch
    /\ InitRegistry
    /\ InitDispatch
    /\ InitRoutes

SpecSearch == InitQ /\ [][NextSearch]_vars

InitG ==
    /\ hasApiKey = FALSE /\ AnalyzerIdle /\ InitRunner /\ InitPlugins
    /\ InitStorageIdle /\ InitParserIdle /\ InitContextIdle /\ InitSearch
    /\ InitRegistry
    /\ InitDispatch
    /\ InitRoutes

SpecRegistry == InitG /\ [][NextRegistry]_vars

SpecDispatch == InitG /\ [][NextDispatch]_vars

SpecRoutes == InitG /\ [][NextRoutes]_vars
====
